---- MODULE Spec2Model ----
(***************************************************************************)
(* Lyrics synchronisation of music-companion: MediaTracker                 *)
(* (media_tracker.py), LyricsSynchronizer, update_lyrics_entities and      *)
(* fetch_lyrics_for_track (lyrics.py), as tasks of one asyncio event loop. *)
(*                                                                         *)
(* A coroutine runs atomically from one await to the next; every step of   *)
(* the model is one such segment.  Times are whole seconds, positions and  *)
(* timeline offsets are milliseconds.                                      *)
(***************************************************************************)
EXTENDS Integers, Sequences, FiniteSets, TLC

\* ------------------------------------------------------------------ bounds
MaxTime == 1
MaxTrackers == 3
MaxFetch == 2
MaxRenders == 2
MaxStops == 2
MaxWatchdogs == 2
MaxSessions == 2
MaxLines == 3
MaxAge == 12

\* --------------------------------------------------------------- constants
NoPos == -1
NoTime == -1000
max_initial_updates == 5
initial_interval_ds == 5
force_update_interval == 3
seek_threshold == 6000
FINETUNE_SYNC == 2

VARIABLES
    devs,            \* the configured devices (entry ids)
    now,             \* wall clock, seconds
    just_started,    \* _INTEGRATION_JUST_STARTED
    player,          \* hass.states.get(media player entity), per device
    display,         \* the three lyrics text entities, per device
    sync,            \* device_data[DEVICE_DATA_LYRICS_SYNC], per device
    trackers,        \* every MediaTracker ever constructed, per device
    renders,         \* tasks asyncio.create_task(update_lyrics_entities(..))
    stops,           \* tasks asyncio.create_task(self.stop())
    watchdogs,       \* tasks asyncio.create_task(self._force_update_task())
    fetches,         \* tasks running fetch_lyrics_for_track
    last_media_id,   \* device_data[DEVICE_DATA_LAST_MEDIA_CONTENT_ID]
    faults,          \* exceptions that left a task, per device
    hist             \* history, per device: .stopped the sessions whose stop()
                     \* has returned, .stale a display write of such a session,
                     \* .finished / .changed the session that was notified of
                     \* its end / of a track change, .settled those of them
                     \* seen ended since, .noop a stop() that found the
                     \* session inactive, .skipped a fetch that returned at
                     \* the radio short-circuit, .held a position update
                     \* that found the active line unchanged, .wrote the
                     \* time of the last display write, .triggered the
                     \* triple of the render task created last, .fired the
                     \* state of the tracker whose polling loop called the
                     \* position callback last

vars == <<devs, now, just_started, player, display, sync, trackers, renders,
          stops, watchdogs, fetches, last_media_id, faults, hist>>

\* ------------------------------------------------------------ value spaces
Empty3 == <<"", "", "">>
PlayerStates == {"idle", "playing", "paused"}
RadioIds == {"library://radio/1"}
IsRadioId(mid) == mid \in RadioIds

\* The synchronizer before the first start(): LyricsSynchronizer.__init__.
NewSynchronizer ==
    [exists |-> FALSE, active |-> FALSE, media_tracker |-> 0,
     current_track |-> "", current_artist |-> <<>>,
     timeline |-> <<>>, lyrics |-> <<>>, current_line_index |-> -1,
     last_update_time |-> 0, gen |-> 0]

\* MediaTracker.__init__
NewTracker(is_radio_source) ==
    [tracking_active |-> FALSE, monitor_task |-> "none", listening |-> FALSE,
     is_radio_source |-> is_radio_source,
     current_track |-> "", current_artist |-> <<>>, media_content_id |-> "",
     state |-> "idle", media_position |-> NoPos, position_updated_at |-> NoTime,
     pause_start_time |-> NoTime]


Abs(x) == IF x < 0 THEN -x ELSE x
Last(q) == q[Len(q)]
SetAt(q, i, v) == [q EXCEPT ![i] = v]
RemoveAt(q, i) == SubSeq(q, 1, i - 1) \o SubSeq(q, i + 1, Len(q))

\* ============================================================ MediaTracker
\* An update other than the program's: only a change of title, artist or
\* content id is reported, a new position is taken silently.
update_from_state_identity_only(tr, pl) ==
    IF ~pl.present THEN [t |-> tr, changed |-> FALSE]
    ELSE
    LET takes == ~tr.is_radio_source /\ pl.pos # NoPos
    IN [t |-> [tr EXCEPT !.state = pl.state,
                         !.current_track = pl.title,
                         !.current_artist = pl.artist,
                         !.media_content_id = pl.mid,
                         !.media_position = IF takes THEN pl.pos ELSE @,
                         !.position_updated_at = IF takes THEN pl.upd ELSE @],
        changed |-> \/ pl.title # tr.current_track
                    \/ pl.artist # tr.current_artist
                    \/ pl.mid # tr.media_content_id]

\* update_from_state: the tracker after reading the player entity `pl`, and
\* the returned flag (track_changed or position_changed).
update_from_state(tr, pl) ==
    IF ~pl.present THEN [t |-> tr, changed |-> FALSE]
    ELSE
    LET track_changed == \/ pl.title # tr.current_track
                         \/ pl.artist # tr.current_artist
                         \/ pl.mid # tr.media_content_id
        state_changed == pl.state # tr.state
        pausing == state_changed /\ pl.state = "paused" /\ tr.state = "playing"
        resuming == /\ state_changed /\ pl.state = "playing" /\ tr.state = "paused"
                    /\ tr.pause_start_time # NoTime
        pause_duration == now - tr.pause_start_time
        adjusted == IF resuming /\ ~tr.is_radio_source /\ tr.position_updated_at # NoTime
                    THEN tr.position_updated_at + pause_duration
                    ELSE tr.position_updated_at
        position_differs == /\ ~tr.is_radio_source /\ pl.pos # NoPos
                            /\ tr.media_position # NoPos /\ pl.pos # tr.media_position
        takes == ~tr.is_radio_source /\ pl.pos # NoPos
        jump == /\ takes /\ tr.media_position # NoPos
                /\ Abs(pl.pos - tr.media_position) > 2000
    IN [t |-> [tr EXCEPT !.state = pl.state,
                         !.current_track = pl.title,
                         !.current_artist = pl.artist,
                         !.media_content_id = pl.mid,
                         !.pause_start_time = IF pausing THEN now ELSE @,
                         !.media_position = IF takes THEN pl.pos ELSE @,
                         !.position_updated_at = IF takes THEN pl.upd ELSE adjusted],
        changed |-> track_changed \/ position_differs \/ jump]

\* set_initial_position
set_initial_position(tr, position, updated_at) ==
    [tr EXCEPT !.media_position = position, !.position_updated_at = updated_at]

\* A catch-up other than the program's: the acceleration has no cap.
accelerated_ms_uncapped(is_radio_source, elapsed) ==
    IF is_radio_source /\ elapsed > 2
    THEN 1000 * elapsed + 5 * elapsed * elapsed
    ELSE 1000 * elapsed

\* The catch-up of a radio source: elapsed * acceleration, in milliseconds,
\* with acceleration = min(1.05, 1.0 + elapsed / 200.0) once elapsed > 2.0.
accelerated_ms(is_radio_source, elapsed) ==
    IF is_radio_source /\ elapsed > 2
    THEN IF 5 * elapsed < 50 THEN 1000 * elapsed + 5 * elapsed * elapsed
                             ELSE 1050 * elapsed
    ELSE 1000 * elapsed

\* calculate_current_position, in milliseconds (rounded to 2 decimals of a
\* second, i.e. to 10 ms).
calculate_current_position(tr) ==
    IF tr.media_position = NoPos \/ tr.position_updated_at = NoTime THEN 0
    ELSE IF tr.state # "playing" THEN tr.media_position
    ELSE LET raw == tr.media_position
                    + accelerated_ms(tr.is_radio_source, now - tr.position_updated_at)
         IN (raw \div 10) * 10

\* ================================================ LyricsSynchronizer (pure)
\* The per-device world a callback runs in: W.s the synchronizer, W.t the
\* trackers, W.ren / W.stp / W.wd the tasks it may spawn, W.disp the display,
\* W.ovf set when a spawn would exceed a bound of the model.
SpawnRender(W, w) ==
    IF Len(W.ren) >= MaxRenders THEN [W EXCEPT !.ovf = TRUE]
    ELSE [W EXCEPT !.ren = Append(@, [w |-> w, n |-> 1, g |-> W.s.gen]),
                   !.h.triggered = w]

NewStop == [pc |-> "new", sub |-> "", k |-> 0, g |-> 0, sg |-> 0, w |-> Empty3]

SpawnStop(W) ==
    IF Len(W.stp) >= MaxStops THEN [W EXCEPT !.ovf = TRUE]
    ELSE [W EXCEPT !.stp = Append(@, NewStop)]

\* (previous, current, next) for the interval index i of the code's loops
\* `for i in range(1, len(self.timeline))`: lyrics[i-2], lyrics[i-1], lyrics[i].
Triple(lyrics, i) ==
    << IF i > 1 THEN lyrics[i - 1] ELSE "",
       lyrics[i],
       IF i < Len(lyrics) THEN lyrics[i + 1] ELSE "" >>

\* A lookup other than the program's: the interval is open at its start.
FindIntervalOpen(timeline, position_ms) ==
    LET hits == {i \in 1..(Len(timeline) - 1) :
                    timeline[i] < position_ms /\ position_ms < timeline[i + 1]}
    IN IF hits = {} THEN 0 ELSE CHOOSE i \in hits : \A j \in hits : i <= j

\* A lookup other than the program's: the last entry of the timeline opens
\* an interval that has no end.
FindIntervalThroughLast(timeline, position_ms) ==
    LET hits == {i \in 1..Len(timeline) :
                    /\ timeline[i] <= position_ms
                    /\ i < Len(timeline) => position_ms < timeline[i + 1]}
    IN IF hits = {} THEN 0 ELSE CHOOSE i \in hits : \A j \in hits : i <= j

\* The first i in range(1, len(timeline)) with
\* timeline[i-1] <= position_ms < timeline[i]; 0 when the loop finds none.
FindInterval(timeline, position_ms) ==
    LET hits == {i \in 1..(Len(timeline) - 1) :
                    timeline[i] <= position_ms /\ position_ms < timeline[i + 1]}
    IN IF hits = {} THEN 0 ELSE CHOOSE i \in hits : \A j \in hits : i <= j

\* The first i in range(1, len(timeline)) with
\* position_ms < timeline[i-1] < position_ms + 10000 (radio sources).
FindUpcoming(timeline, position_ms) ==
    LET hits == {i \in 1..(Len(timeline) - 1) :
                    timeline[i] > position_ms /\ timeline[i] < position_ms + 10000}
    IN IF hits = {} THEN 0 ELSE CHOOSE i \in hits : \A j \in hits : i <= j

FirstLines(lyrics) ==
    IF Len(lyrics) > 1 THEN <<"", lyrics[1], lyrics[2]>> ELSE <<"", lyrics[1], "">>

\* A lookup other than the program's: the first lines whatever the position.
sync_to_position_from_start(W, position_ms) ==
    IF Len(W.s.lyrics) > 0 THEN SpawnRender(W, FirstLines(W.s.lyrics)) ELSE W

\* LyricsSynchronizer._sync_to_position
sync_to_position(W, position_ms) ==
    LET s == W.s
        radio == s.media_tracker # 0 /\ W.t[s.media_tracker].is_radio_source
        up == IF s.timeline # <<>> /\ radio
              THEN FindUpcoming(s.timeline, position_ms) ELSE 0
        ex == IF s.timeline # <<>> /\ up = 0
              THEN FindInterval(s.timeline, position_ms) ELSE 0
        i == IF up > 0 THEN up ELSE ex
    IN IF i > 0
       THEN SpawnRender([W EXCEPT !.s.current_line_index = i - 1],
                        Triple(s.lyrics, i))
       ELSE IF Len(s.lyrics) > 0 THEN SpawnRender(W, FirstLines(s.lyrics))
       ELSE W

\* A position callback other than the program's: it renders the resolved
\* line whether or not it is the active one already.
update_lyrics_position_always(W, position_ms) ==
    LET s == W.s IN
    IF ~s.active \/ s.timeline = <<>> \/ s.lyrics = <<>> THEN W
    ELSE
    LET W1 == [W EXCEPT !.s.last_update_time = now]
        i == FindInterval(s.timeline, position_ms)
    IN IF position_ms >= Last(s.timeline)
       THEN SpawnStop([W1 EXCEPT !.h.finished = s.gen])
       ELSE IF i > 0
       THEN SpawnRender([W1 EXCEPT !.s.current_line_index = i - 1,
                                   !.h.held = @ \/ i - 1 = s.current_line_index],
                        Triple(s.lyrics, i))
       ELSE IF position_ms < s.timeline[1]
       THEN [W1 EXCEPT !.s.current_line_index = -1]
       ELSE W1

\* LyricsSynchronizer.update_lyrics_position (the position callback)
update_lyrics_position(W, position_ms) ==
    LET s == W.s IN
    IF ~s.active \/ s.timeline = <<>> \/ s.lyrics = <<>> THEN W
    ELSE
    LET W1 == [W EXCEPT !.s.last_update_time = now]
        i == FindInterval(s.timeline, position_ms)
    IN IF position_ms >= Last(s.timeline)
       THEN SpawnStop([W1 EXCEPT !.h.finished = s.gen])
       ELSE IF i > 0
       THEN IF i - 1 # s.current_line_index
            THEN SpawnRender([W1 EXCEPT !.s.current_line_index = i - 1],
                             Triple(s.lyrics, i))
            ELSE [W1 EXCEPT !.h.held = TRUE]
       ELSE IF position_ms < s.timeline[1]
       THEN [W1 EXCEPT !.s.current_line_index = -1]
       ELSE W1

\* A change callback other than the program's: a seek to a position in no
\* interval of the timeline keeps the active line.
handle_track_change_keeping(W, is_track_change) ==
    LET s == W.s IN
    IF is_track_change
    THEN SpawnStop(IF s.active THEN [W EXCEPT !.h.changed = s.gen] ELSE W)
    ELSE IF s.media_tracker # 0 /\ W.t[s.media_tracker].media_position # NoPos
    THEN LET position_ms == calculate_current_position(W.t[s.media_tracker])
             i == FindInterval(s.timeline, position_ms)
         IN IF i > 0
            THEN SpawnRender([W EXCEPT !.s.current_line_index = i - 1],
                             Triple(s.lyrics, i))
            ELSE W
    ELSE W

\* LyricsSynchronizer.handle_track_change (the change callback)
handle_track_change(W, is_track_change) ==
    LET s == W.s IN
    IF is_track_change
    THEN SpawnStop(IF s.active THEN [W EXCEPT !.h.changed = s.gen] ELSE W)
    ELSE IF s.media_tracker # 0 /\ W.t[s.media_tracker].media_position # NoPos
    THEN LET position_ms == calculate_current_position(W.t[s.media_tracker])
             i == FindInterval(s.timeline, position_ms)
         IN IF i > 0
            THEN SpawnRender([W EXCEPT !.s.current_line_index = i - 1],
                             Triple(s.lyrics, i))
            ELSE [W EXCEPT !.s.current_line_index = -1]
    ELSE W

\* A listener other than the program's: a change of content id that comes
\* with a new position is reported as a seek.
handle_state_change_by_position(W, k, pl, old_mid, new_mid) ==
    IF ~pl.present THEN W
    ELSE
    LET r == update_from_state(W.t[k], pl)
        W1 == [W EXCEPT !.t[k] = r.t]
    IN IF r.changed
       THEN handle_track_change(W1, new_mid # old_mid /\ pl.pos = W.t[k].media_position)
       ELSE W1

\* A listener other than the program's: an event without a new state (the
\* entity is gone) is reported as a track change.
handle_state_change_losing(W, k, pl, old_mid, new_mid) ==
    IF ~pl.present THEN handle_track_change(W, TRUE)
    ELSE
    LET r == update_from_state(W.t[k], pl)
        W1 == [W EXCEPT !.t[k] = r.t]
    IN IF r.changed THEN handle_track_change(W1, new_mid # old_mid) ELSE W1

\* MediaTracker._handle_state_change of tracker k for one state event:
\* old_mid / new_mid are the event's media_content_id, the tracker itself
\* re-reads the entity (pl).
handle_state_change(W, k, pl, old_mid, new_mid) ==
    IF ~pl.present THEN W
    ELSE
    LET r == update_from_state(W.t[k], pl)
        W1 == [W EXCEPT !.t[k] = r.t]
    IN IF r.changed THEN handle_track_change(W1, new_mid # old_mid) ELSE W1


\* ================================================================ display
\* One `await hass.services.async_call("text", "set_value", ..)` of
\* update_lyrics_entities: line n of the display takes w[n].  g is the
\* session the text was computed for (0: not a session's lyrics); a write of
\* a session whose stop() has already returned is recorded as stale.
WriteLine(W, n, w, g) ==
    [W EXCEPT !.disp[n] = w[n],
              !.h.stale = @ \/ g \in W.h.stopped,
              !.h.wrote = now]

\* ===================================================== coroutines in tasks
\* A task that awaits stop() or update_lyrics_entities() carries the frame
\* of that call: sub = "wait" (stop awaits the monitor task of tracker k),
\* "w2" / "w3" (update_lyrics_entities is suspended before its 2nd / 3rd
\* service call, writing w), "ret" (the 3rd call is awaited).

\* update_lyrics_entities, up to its first await.
BeginWrite(W, f, w, g) ==
    [W |-> WriteLine(W, 1, w, g), f |-> [f EXCEPT !.sub = "w2", !.w = w, !.g = g]]

\* stop(), line 304 on: clear the display.
stop_clear(W, f) == BeginWrite(W, f, Empty3, 0)

\* MediaTracker.stop_tracking up to its await; TRUE in .waits when the
\* caller is suspended on the monitor task.
stop_tracking(tr) ==
    IF tr.monitor_task = "run"
    THEN [t |-> [tr EXCEPT !.tracking_active = FALSE, !.monitor_task = "cancel"],
          waits |-> TRUE]
    ELSE IF tr.monitor_task = "cancel"
    THEN [t |-> [tr EXCEPT !.tracking_active = FALSE], waits |-> TRUE]
    ELSE [t |-> [tr EXCEPT !.tracking_active = FALSE, !.monitor_task = "none"],
          waits |-> FALSE]

\* A stop() other than the program's: it does not look at self.active.
stop_enter_unguarded(W, f) ==
    LET k == W.s.media_tracker
        W1 == [W EXCEPT !.s.active = FALSE]
        f1 == [f EXCEPT !.sg = W.s.gen]
    IN IF k # 0
       THEN LET r == stop_tracking(W.t[k])
                W2 == [W1 EXCEPT !.t[k] = r.t]
            IN IF r.waits
               THEN [W |-> W2, f |-> [f1 EXCEPT !.sub = "wait", !.k = k]]
               ELSE stop_clear([W2 EXCEPT !.s.media_tracker = 0], f1)
       ELSE stop_clear(W1, f1)

\* LyricsSynchronizer.stop, from its call to its first await.  f.sub = ""
\* afterwards when stop() returned at once (the session was not active).
\* f.sg remembers the session being stopped.
stop_enter(W, f) ==
    IF ~W.s.active THEN [W |-> [W EXCEPT !.h.noop = TRUE], f |-> [f EXCEPT !.sub = ""]]
    ELSE
    LET k == W.s.media_tracker
        W1 == [W EXCEPT !.s.active = FALSE]
        f1 == [f EXCEPT !.sg = W.s.gen]
    IN IF k # 0
       THEN LET r == stop_tracking(W.t[k])
                W2 == [W1 EXCEPT !.t[k] = r.t]
            IN IF r.waits
               THEN [W |-> W2, f |-> [f1 EXCEPT !.sub = "wait", !.k = k]]
               ELSE stop_clear([W2 EXCEPT !.s.media_tracker = 0], f1)
       ELSE stop_clear(W1, f1)

\* stop() resumed after `await self.monitor_task`.
stop_after_wait(W, f) ==
    stop_clear([W EXCEPT !.t[f.k].monitor_task = "none", !.s.media_tracker = 0], f)

\* stop() returns: the session f.sg has been stopped.
stop_return(W, f) ==
    [W EXCEPT !.h.stopped = IF f.sg > 0 THEN @ \cup {f.sg} ELSE @]

\* The 2nd and 3rd service call of update_lyrics_entities.
write_next(W, f) ==
    [W |-> WriteLine(W, IF f.sub = "w2" THEN 2 ELSE 3, f.w, f.g),
     f |-> [f EXCEPT !.sub = IF f.sub = "w2" THEN "w3" ELSE "ret"]]

\* ================================================================ start()
SpawnWatchdog(W) ==
    IF Len(W.wd) >= MaxWatchdogs THEN [W EXCEPT !.ovf = TRUE]
    ELSE [W EXCEPT !.wd = Append(@, [pc |-> "new", sub |-> "", initial_updates |-> 0,
                                     w |-> Empty3, g |-> 0, current_time |-> 0,
                                     session |-> W.s.gen])]

\* MediaTracker.start_tracking
start_tracking(tr, pl) ==
    IF tr.tracking_active THEN tr
    ELSE [update_from_state([tr EXCEPT !.tracking_active = TRUE], pl).t
            EXCEPT !.monitor_task = "run", !.listening = TRUE]

\* start(), lines 229-234: `await self.media_tracker.start_tracking()` on
\* whatever self.media_tracker is now, then active, then the watchdog.
start_finish(W, f, pl) ==
    LET k == W.s.media_tracker IN
    IF k = 0
    THEN [W |-> [W EXCEPT !.faults = @ \cup {"start: media_tracker is None"}],
          f |-> [f EXCEPT !.pc = "done"]]
    ELSE [W |-> SpawnWatchdog([W EXCEPT !.t[k] = start_tracking(@, pl),
                                        !.s.active = TRUE]),
          f |-> [f EXCEPT !.pc = "done"]]

\* A start() other than the program's: without a position it takes the
\* first line for the current one.
start_body_at_first_line(W, f, pl) ==
    IF Len(W.t) >= MaxTrackers THEN [W |-> [W EXCEPT !.ovf = TRUE], f |-> f]
    ELSE
    LET k == Len(W.t) + 1
        has_pos == f.pos # NoPos /\ f.updated_at # NoTime
        tr == IF has_pos
              THEN set_initial_position(NewTracker(f.audiofingerprint), f.pos, f.updated_at)
              ELSE NewTracker(f.audiofingerprint)
        W1 == [W EXCEPT !.s.timeline = f.timeline, !.s.lyrics = f.lrc,
                        !.s.current_line_index = IF has_pos THEN -1 ELSE 0,
                        !.s.last_update_time = now,
                        !.s.current_track = IF pl.present THEN pl.title ELSE @,
                        !.s.current_artist = IF pl.present THEN pl.artist ELSE @,
                        !.s.media_tracker = k, !.s.gen = k,
                        !.t = Append(@, tr)]
    IN IF has_pos THEN start_finish(sync_to_position(W1, f.pos), f, pl)
       ELSE IF Len(f.lrc) > 0
       THEN LET c == BeginWrite(W1, f, FirstLines(f.lrc), k)
            IN [W |-> c.W, f |-> [c.f EXCEPT !.pc = "start_provisional"]]
       ELSE start_finish(W1, f, pl)

\* start(), lines 177-227: bind the timeline and a new tracker, then the
\* initial display.
start_body(W, f, pl) ==
    IF Len(W.t) >= MaxTrackers THEN [W |-> [W EXCEPT !.ovf = TRUE], f |-> f]
    ELSE
    LET k == Len(W.t) + 1
        has_pos == f.pos # NoPos /\ f.updated_at # NoTime
        tr == IF has_pos
              THEN set_initial_position(NewTracker(f.audiofingerprint), f.pos, f.updated_at)
              ELSE NewTracker(f.audiofingerprint)
        W1 == [W EXCEPT !.s.timeline = f.timeline, !.s.lyrics = f.lrc,
                        !.s.current_line_index = -1, !.s.last_update_time = now,
                        !.s.current_track = IF pl.present THEN pl.title ELSE @,
                        !.s.current_artist = IF pl.present THEN pl.artist ELSE @,
                        !.s.media_tracker = k, !.s.gen = k,
                        !.t = Append(@, tr)]
    IN IF has_pos THEN start_finish(sync_to_position(W1, f.pos), f, pl)
       ELSE IF Len(f.lrc) > 0
       THEN LET c == BeginWrite(W1, f, FirstLines(f.lrc), k)
            IN [W |-> c.W, f |-> [c.f EXCEPT !.pc = "start_provisional"]]
       ELSE start_finish(W1, f, pl)

\* start(), lines 174-175.
start_enter(W, f, pl) ==
    IF W.s.active
    THEN LET r == stop_enter(W, f)
         IN [W |-> r.W, f |-> [r.f EXCEPT !.pc = "start_stop"]]
    ELSE start_body(W, f, pl)


\* ================================================= fetch_lyrics_for_track
\* The lyrics backend's answers (lrc_kit), as lines of (timestamp, text);
\* a timestamp is <<minutes, milliseconds>>, <<>> when the line has none
\* (it does not start with "[0" .. "[3", or the bracket is not closed), and
\* <<kind>> when the bracket holds no time: "no_colon" (time_parts[1] raises
\* IndexError), "not_a_number" (int() or float() raises ValueError),
\* "infinite" (float() gives inf, as for "[00:inf]" or "[00:1e999]", and
\* int() of it raises OverflowError).  text is the line with its bracketed
\* groups removed and stripped.
Stamped(m, ms, text) == [stamp |-> <<m, ms>>, text |-> text]
Plain(text) == [stamp |-> <<>>, text |-> text]
Malformed(kind, text) == [stamp |-> <<kind>>, text |-> text]
Unsynced == <<Plain("la"), Plain("la la")>>
Synced(track) ==
    IF track = "t1"
    THEN <<Stamped(0, 0, "A"), Stamped(0, 1000, "B"), Stamped(0, 2000, "C")>>
    ELSE <<Stamped(0, 1000, "X"), Stamped(0, 2000, ""), Stamped(0, 2000, "Y")>>
Answers(track) == {<<>>, Unsynced, Synced(track)}

\* A parser other than the program's: it reads the seconds of a timestamp
\* and leaves its minutes out.
RECURSIVE lyricSplit_seconds_only(_)
lyricSplit_seconds_only(lyrics) ==
    IF lyrics = <<>> THEN [timeline |-> <<>>, lrc |-> <<>>, raised |-> FALSE]
    ELSE LET line == Head(lyrics)
             rest == lyricSplit_seconds_only(Tail(lyrics))
         IN IF line.stamp = <<>> \/ line.text = "" \/ Len(line.stamp) = 1 THEN rest
            ELSE [timeline |-> <<line.stamp[2]>> \o rest.timeline,
                  lrc |-> <<line.text>> \o rest.lrc,
                  raised |-> FALSE]

\* A parser other than the program's: it returns the entries last line
\* first.
RECURSIVE lyricSplit_reversed(_)
lyricSplit_reversed(lyrics) ==
    IF lyrics = <<>> THEN [timeline |-> <<>>, lrc |-> <<>>, raised |-> FALSE]
    ELSE LET line == Head(lyrics)
             rest == lyricSplit_reversed(Tail(lyrics))
         IN IF line.stamp = <<>> \/ line.text = "" \/ Len(line.stamp) = 1 THEN rest
            ELSE [timeline |-> rest.timeline \o <<line.stamp[1] * 60000 + line.stamp[2]>>,
                  lrc |-> rest.lrc \o <<line.text>>,
                  raised |-> FALSE]

\* lyricSplit: the (timeline, lines) of the timestamped lines with a text,
\* in the order of the input; .raised when an exception other than
\* ValueError and IndexError left the function (it returns nothing then).
RECURSIVE lyricSplit(_)
lyricSplit(lyrics) ==
    IF lyrics = <<>> THEN [timeline |-> <<>>, lrc |-> <<>>, raised |-> FALSE]
    ELSE LET line == Head(lyrics)
             rest == lyricSplit(Tail(lyrics))
         IN IF line.stamp = <<>> \/ line.text = "" THEN rest
            ELSE IF Len(line.stamp) = 1
            THEN IF line.stamp[1] = "infinite"
                 THEN [timeline |-> <<>>, lrc |-> <<>>, raised |-> TRUE]
                 ELSE rest
            ELSE IF rest.raised THEN rest
            ELSE [timeline |-> <<line.stamp[1] * 60000 + line.stamp[2]>> \o rest.timeline,
                  lrc |-> <<line.text>> \o rest.lrc,
                  raised |-> FALSE]

NewFetch(track, artist, pos, updated_at, audiofingerprint) ==
    [pc |-> "new", sub |-> "", k |-> 0, g |-> 0, sg |-> 0, w |-> Empty3,
     track |-> track, artist |-> artist, pos |-> pos, updated_at |-> updated_at,
     audiofingerprint |-> audiofingerprint,
     current_media_id |-> "", current_track |-> "", current_artist |-> <<>>,
     query |-> 0, timeline |-> <<>>, lrc |-> <<>>]

Done(W, f) == [W |-> W, f |-> [f EXCEPT !.pc = "done"]]

\* A fetch other than the program's: there is no radio short-circuit.
fetch_begin_always(W, f, pl) ==
    LET f1 == [f EXCEPT !.current_media_id = IF pl.present THEN pl.mid ELSE "",
                        !.current_track = IF pl.present THEN pl.title ELSE "",
                        !.current_artist = IF pl.present THEN pl.artist ELSE <<>>]
        c == BeginWrite(W, f1, <<"", "Searching for lyrics...", "">>, 0)
    IN [W |-> c.W, f |-> [c.f EXCEPT !.pc = "searching"]]

\* Lines 680-695: the radio short-circuit, then "Searching for lyrics...".
fetch_begin(W, f, pl) ==
    LET mid == IF pl.present THEN pl.mid ELSE ""
        f1 == [f EXCEPT !.current_media_id = mid,
                        !.current_track = IF pl.present THEN pl.title ELSE "",
                        !.current_artist = IF pl.present THEN pl.artist ELSE <<>>]
    IN IF IsRadioId(mid) /\ ~f.audiofingerprint
       THEN Done([W EXCEPT !.h.skipped = TRUE], f)
       ELSE LET c == BeginWrite(W, f1, <<"", "Searching for lyrics...", "">>, 0)
            IN [W |-> c.W, f |-> [c.f EXCEPT !.pc = "searching"]]

\* Lines 728-740: the last media id, then the first backend query.
fetch_query(W, f) ==
    [W |-> [W EXCEPT !.lmid = f.current_media_id],
     f |-> [f EXCEPT !.pc = "query", !.sub = "", !.query = 0]]

\* A fetch other than the program's: a fingerprint-triggered request is
\* de-duplicated like any other.
fetch_after_search_deduplicating(W, f) ==
    LET f1 == IF W.js THEN [f EXCEPT !.pos = NoPos, !.updated_at = NoTime] ELSE f
        W1 == [W EXCEPT !.js = FALSE]
        s == W.s
    IN IF s.exists /\ s.active /\ s.media_tracker # 0 THEN Done(W1, f1)
       ELSE IF s.exists /\ s.active
       THEN LET r == stop_enter(W1, f1)
            IN [W |-> r.W, f |-> [r.f EXCEPT !.pc = "stopping"]]
       ELSE fetch_query(W1, f1)

\* A fetch other than the program's: the first fetch clears the
\* just-started flag but keeps the position it was given.
fetch_after_search_keeping_position(W, f) ==
    LET W1 == [W EXCEPT !.js = FALSE]
        s == W.s
        same == /\ s.media_tracker # 0
                /\ W.t[s.media_tracker].current_track = f.current_track
                /\ W.t[s.media_tracker].current_artist = f.current_artist
    IN IF ~f.audiofingerprint /\ s.exists /\ s.active /\ same THEN Done(W1, f)
       ELSE IF s.exists /\ s.active
       THEN LET r == stop_enter(W1, f)
            IN [W |-> r.W, f |-> [r.f EXCEPT !.pc = "stopping"]]
       ELSE fetch_query(W1, f)

\* Lines 697-726: the just-started guard, the de-duplication and the stop
\* of the existing session.
fetch_after_search(W, f) ==
    LET f1 == IF W.js THEN [f EXCEPT !.pos = NoPos, !.updated_at = NoTime] ELSE f
        W1 == [W EXCEPT !.js = FALSE]
        s == W.s
        same == /\ s.media_tracker # 0
                /\ W.t[s.media_tracker].current_track = f.current_track
                /\ W.t[s.media_tracker].current_artist = f.current_artist
    IN IF ~f.audiofingerprint /\ s.exists /\ s.active /\ same THEN Done(W1, f1)
       ELSE IF s.exists /\ s.active
       THEN LET r == stop_enter(W1, f1)
            IN [W |-> r.W, f |-> [r.f EXCEPT !.pc = "stopping"]]
       ELSE fetch_query(W1, f1)

\* Lines 772-776: "No lyrics found".
fetch_none(W, f) ==
    LET c == BeginWrite(W, f, <<"", "No lyrics found", "">>, 0)
    IN [W |-> c.W, f |-> [c.f EXCEPT !.pc = "no_lyrics"]]

\* A fetch other than the program's: it starts a session on whatever the
\* parser returns.
fetch_process_unchecked(W, f, pl, lyrics_result) ==
    LET p == lyricSplit(lyrics_result) IN
    start_enter([W EXCEPT !.s.exists = TRUE],
                [f EXCEPT !.timeline = p.timeline, !.lrc = p.lrc], pl)

\* Lines 778-797: lyricSplit, then the synchronizer's start().
fetch_process(W, f, pl, lyrics_result) ==
    LET p == lyricSplit(lyrics_result) IN
    IF p.raised
    THEN Done([W EXCEPT !.faults = @ \cup {"fetch: lyricSplit raised"}], f)
    ELSE IF p.timeline = <<>>
    THEN LET c == BeginWrite(W, f, <<"", "Lyrics not synced", "">>, 0)
         IN [W |-> c.W, f |-> [c.f EXCEPT !.pc = "not_synced"]]
    ELSE start_enter([W EXCEPT !.s.exists = TRUE],
                     [f EXCEPT !.timeline = p.timeline, !.lrc = p.lrc], pl)

\* An artist string is the sequence of the parts its separators ("/", "|",
\* "&", ",", " and ", " feat ", ..) divide it into, each stripped of
\* whitespace: <<"a1">> has no separator, <<"a1", "">> is "a1 & ".
contains_separator(artist) == Len(artist) > 1

\* Lines 753-760: [a.strip() for a in individual_artists.split("|") if a.strip()]
artist_list(artist) == SelectSeq(artist, LAMBDA a : a # "")

\* The artist string of the pending query of a fetch: f.query = 0 is the
\* query with the full artist string, f.query = n the one with the n-th
\* individual artist.
search_artist(f) ==
    IF f.query = 0 THEN f.artist ELSE <<artist_list(f.artist)[f.query]>>

\* A fetch other than the program's: a miss is final, the individual
\* artists are never tried.
fetch_query_returns_once(W, f, pl, lyrics_result) ==
    IF lyrics_result # <<>> THEN fetch_process(W, f, pl, lyrics_result)
    ELSE fetch_none(W, f)

\* Lines 740-770: a backend query returns lyrics_result (<<>>: nothing).
fetch_query_returns(W, f, pl, lyrics_result) ==
    IF lyrics_result # <<>> THEN fetch_process(W, f, pl, lyrics_result)
    ELSE IF contains_separator(f.artist) /\ f.query < Len(artist_list(f.artist))
    THEN [W |-> W, f |-> [f EXCEPT !.query = @ + 1]]
    ELSE fetch_none(W, f)

\* Lines 739-740 and 765-766: provider.search raises in the executor; the
\* await re-raises in fetch_lyrics_for_track, which has no handler: the
\* exception leaves the task.
fetch_query_raises(W, f) ==
    Done([W EXCEPT !.faults = @ \cup {"fetch: search raised"}], f)

\* ==================================================== monitor_playback_event
\* The handler of a state event runs as a task of its own; its frame f is
\* kept with the fetch tasks, and the fetch it creates takes its place.
\* f.current_media_id is the handler's media_content_id.

\* Lines 878-879: the display is cleared.
monitor_clear(W, f) ==
    LET c == BeginWrite(W, f, Empty3, 0)
    IN [W |-> c.W, f |-> [c.f EXCEPT !.pc = "monitor_clear"]]

\* Lines 880-889: get_media_player_info, the last-processed id, and the
\* task of the fetch.
monitor_finish(W, f, pl) ==
    IF pl.present /\ pl.state = "playing" /\ pl.title # "" /\ pl.artist # <<>>
    THEN [W |-> [W EXCEPT !.lmid = f.current_media_id],
          f |-> NewFetch(pl.title, pl.artist, pl.pos, pl.upd, FALSE)]
    ELSE Done(W, f)

\* Lines 845-876 and 892-899: from the call of the handler to its first
\* await; old is the state the event replaces, pl the state of the player.
monitor_playback_event(W, f0, old, pl) ==
    LET media_content_id == IF pl.present THEN pl.mid ELSE ""
        f == [f0 EXCEPT !.current_media_id = media_content_id]
        active == W.s.exists /\ W.s.active
    IN IF old.state = pl.state /\ old.mid = media_content_id THEN Done(W, f)
       ELSE IF pl.state = "playing" /\ ~IsRadioId(media_content_id)
       THEN IF media_content_id # "" /\ media_content_id # W.lmid
            THEN IF active
                 THEN LET r == stop_enter(W, f)
                      IN [W |-> r.W, f |-> [r.f EXCEPT !.pc = "monitor_stop"]]
                 ELSE monitor_clear(W, f)
            ELSE Done(W, f)
       ELSE IF pl.state = "playing"
       THEN LET W1 == [W EXCEPT !.lmid = media_content_id]
            IN IF active
               THEN LET r == stop_enter(W1, f)
                    IN [W |-> r.W, f |-> [r.f EXCEPT !.pc = "monitor_radio"]]
               ELSE Done(W1, f)
       ELSE Done(W, f)

\* A fetch task resumed at f.pc / f.sub (other than a returning query).
fetch_resume(W, f, pl) ==
    IF f.sub \in {"w2", "w3"} THEN write_next(W, f)
    ELSE IF f.sub = "wait" THEN stop_after_wait(W, f)
    ELSE IF f.pc = "new" THEN fetch_begin(W, f, pl)
    ELSE IF f.pc = "searching" THEN fetch_after_search(W, f)
    ELSE IF f.pc = "stopping" THEN fetch_query(stop_return(W, f), f)
    ELSE IF f.pc = "start_stop" THEN start_body(stop_return(W, f), [f EXCEPT !.sub = ""], pl)
    ELSE IF f.pc = "start_provisional" THEN start_finish(W, f, pl)
    ELSE IF f.pc = "monitor_stop" THEN monitor_clear(stop_return(W, f), f)
    ELSE IF f.pc = "monitor_clear" THEN monitor_finish(W, f, pl)
    ELSE IF f.pc = "monitor_radio" THEN Done(stop_return(W, f), f)
    ELSE Done(W, f)


\* ==================================================== _force_update_task
\* The index of the timeline entry closest to position_ms (the first one on
\* ties, as min() does), 1-based.
Closest(timeline, position_ms) ==
    CHOOSE c \in 1..Len(timeline) :
        \A j \in 1..Len(timeline) :
            \/ Abs(timeline[c] - position_ms) < Abs(timeline[j] - position_ms)
            \/ (Abs(timeline[c] - position_ms) = Abs(timeline[j] - position_ms) /\ c <= j)

\* `while self.active`: sleep again, or leave the loop.
force_update_loop(W, wd) ==
    [W |-> W, f |-> [wd EXCEPT !.pc = IF W.s.active THEN "sleep" ELSE "done",
                               !.sub = ""]]

\* Lines 433-494: the body of one iteration after its sleep, up to the
\* await of update_lyrics_entities (or to the end of the iteration).
force_update_wake(W, wd) ==
    LET s == W.s
        n == IF wd.initial_updates < max_initial_updates
             THEN wd.initial_updates + 1 ELSE wd.initial_updates
        f == [wd EXCEPT !.initial_updates = n, !.current_time = now]
        time_since_update == now - s.last_update_time
        due == IF n < max_initial_updates
               THEN 10 * time_since_update > initial_interval_ds
               ELSE time_since_update > force_update_interval
        touched == [W EXCEPT !.s.last_update_time = now]
    IN IF ~(due /\ s.media_tracker # 0 /\ W.t[s.media_tracker].state = "playing")
       THEN force_update_loop(W, f)
       ELSE
       LET position_ms == calculate_current_position(W.t[s.media_tracker])
           i == FindInterval(s.timeline, position_ms)
       IN IF Len(s.timeline) > 1 /\ Len(s.lyrics) > 1
          THEN IF i > 0
               THEN LET c == BeginWrite(W, f, Triple(s.lyrics, i), s.gen)
                    IN [W |-> c.W, f |-> [c.f EXCEPT !.pc = "forcing"]]
               ELSE IF position_ms < s.timeline[1] \/ position_ms >= Last(s.timeline)
               THEN force_update_loop(touched, f)
               ELSE LET c == BeginWrite(W, f, Triple(s.lyrics, Closest(s.timeline, position_ms)),
                                        s.gen)
                    IN [W |-> c.W, f |-> [c.f EXCEPT !.pc = "forcing"]]
          ELSE IF Len(s.lyrics) > 0 THEN force_update_loop(touched, f)
          ELSE force_update_loop(W, f)

\* The watchdog task resumed.
force_update_resume(W, wd) ==
    IF wd.sub \in {"w2", "w3"} THEN write_next(W, wd)
    ELSE IF wd.pc = "new" THEN force_update_loop(W, wd)
    ELSE IF wd.pc = "sleep" THEN force_update_wake(W, wd)
    ELSE force_update_loop([W EXCEPT !.s.last_update_time = wd.current_time], wd)

\* ============================================= a spawned stop() task
stop_resume(W, f) ==
    IF f.sub \in {"w2", "w3"} THEN write_next(W, f)
    ELSE IF f.sub = "wait" THEN stop_after_wait(W, f)
    ELSE IF f.pc = "new"
    THEN LET r == stop_enter(W, f)
         IN [W |-> r.W, f |-> [r.f EXCEPT !.pc = IF r.f.sub = "" THEN "done" ELSE "run"]]
    ELSE Done(stop_return(W, f), f)

\* ====================================================== _position_monitor_loop
\* A loop other than the program's: it delivers the position in every
\* iteration, whatever the state of the player.
position_monitor_loop_any_state(W, k) ==
    LET tr == W.t[k] IN
    IF ~tr.tracking_active THEN [W EXCEPT !.t[k].monitor_task = "done"]
    ELSE update_lyrics_position([W EXCEPT !.h.fired = tr.state],
                                calculate_current_position(tr))

\* One iteration of the loop of tracker k.
position_monitor_loop(W, k) ==
    LET tr == W.t[k] IN
    IF ~tr.tracking_active THEN [W EXCEPT !.t[k].monitor_task = "done"]
    ELSE IF tr.state = "playing" /\ tr.media_position # NoPos
    THEN update_lyrics_position([W EXCEPT !.h.fired = tr.state],
                                calculate_current_position(tr))
    ELSE W

\* An iteration of the loop of tracker k raises, in
\* calculate_current_position or in the position callback before it has
\* changed anything: `except Exception` is outside the `while`, it logs the
\* error and the coroutine returns.
position_monitor_raises(W, k) == [W EXCEPT !.t[k].monitor_task = "done"]

\* ============================================================ state events
\* The listeners of a state_changed event, in registration order: the
\* _handle_state_change of every tracker that ever started tracking.
RECURSIVE notify_trackers(_, _, _, _, _)
notify_trackers(W, k, pl, old_mid, new_mid) ==
    IF k > Len(W.t) THEN W
    ELSE notify_trackers(IF W.t[k].listening
                         THEN handle_state_change(W, k, pl, old_mid, new_mid)
                         ELSE W,
                         k + 1, pl, old_mid, new_mid)


\* ================================================================= actions
World(d) ==
    [s |-> sync[d], t |-> trackers[d], ren |-> renders[d], stp |-> stops[d],
     wd |-> watchdogs[d], disp |-> display[d], lmid |-> last_media_id[d],
     js |-> just_started, faults |-> faults[d], h |-> hist[d], ovf |-> FALSE]

\* Session g has ended: it is inactive or superseded, the polling loop of
\* its tracker is over and the display is cleared.
Ended(W, g) ==
    /\ W.s.gen # g \/ ~W.s.active
    /\ W.t[g].monitor_task \in {"none", "done"}
    /\ W.disp = Empty3

\* A store other than the program's: the last processed media id is one
\* entry for all devices.
Commit_sharing(d, W) ==
    /\ ~W.ovf
    /\ sync' = [sync EXCEPT ![d] = W.s]
    /\ trackers' = [trackers EXCEPT ![d] = W.t]
    /\ renders' = [renders EXCEPT ![d] = W.ren]
    /\ stops' = [stops EXCEPT ![d] = W.stp]
    /\ watchdogs' = [watchdogs EXCEPT ![d] = W.wd]
    /\ display' = [display EXCEPT ![d] = W.disp]
    /\ last_media_id' = [e \in devs |-> W.lmid]
    /\ just_started' = W.js
    /\ faults' = [faults EXCEPT ![d] = W.faults]
    /\ hist' = [hist EXCEPT ![d] = W.h]

\* The step of device d is stored: its runtime data, keyed by the device's
\* entry, and the module's just-started flag.
Commit(d, W) ==
    /\ ~W.ovf
    /\ sync' = [sync EXCEPT ![d] = W.s]
    /\ trackers' = [trackers EXCEPT ![d] = W.t]
    /\ renders' = [renders EXCEPT ![d] = W.ren]
    /\ stops' = [stops EXCEPT ![d] = W.stp]
    /\ watchdogs' = [watchdogs EXCEPT ![d] = W.wd]
    /\ display' = [display EXCEPT ![d] = W.disp]
    /\ last_media_id' = [last_media_id EXCEPT ![d] = W.lmid]
    /\ just_started' = W.js
    /\ faults' = [faults EXCEPT ![d] = W.faults]
    /\ hist' = [hist EXCEPT ![d] =
                   [W.h EXCEPT !.settled =
                       @ \cup {g \in {W.h.finished, W.h.changed} \ {0} : Ended(W, g)}]]

\* A task list after its j-th task ran to f: a finished task is dropped.
Settle(q, j, f) == IF f.pc = "done" THEN RemoveAt(q, j) ELSE SetAt(q, j, f)

\* A frame suspended on a monitor task resumes once that task has ended.
Resumable(W, f) == f.sub = "wait" => W.t[f.k].monitor_task = "done"

\* The clock advances.
Tick ==
    /\ now < MaxTime
    /\ now' = now + 1
    /\ UNCHANGED <<devs, just_started, player, display, sync, trackers, renders,
                   stops, watchdogs, fetches, last_media_id, faults, hist>>

\* The media player of device d reports a new state; every registered
\* listener runs.
PlayerEvent(d, state, track, pos) ==
    LET old == player[d]
        pl == [present |-> TRUE, state |-> state, title |-> track.title,
               artist |-> track.artist, mid |-> track.mid, pos |-> pos,
               upd |-> IF pos = NoPos THEN NoTime ELSE now]
        W == notify_trackers(World(d), 1, pl, old.mid, pl.mid)
    IN /\ pl # old
       /\ player' = [player EXCEPT ![d] = pl]
       /\ Commit(d, W)
       /\ UNCHANGED <<devs, now, fetches>>

\* The media player of device d reports a new state while the playback
\* monitor of handle_fetch_lyrics is registered: the monitor, registered
\* before any tracker, runs first, then the listeners of the trackers.
MonitoredEvent(d, state, track, pos) ==
    LET old == player[d]
        pl == [present |-> TRUE, state |-> state, title |-> track.title,
               artist |-> track.artist, mid |-> track.mid, pos |-> pos,
               upd |-> IF pos = NoPos THEN NoTime ELSE now]
        m == monitor_playback_event(World(d), NewFetch("", <<>>, NoPos, NoTime, FALSE),
                                    old, pl)
        W == notify_trackers(m.W, 1, pl, old.mid, pl.mid)
    IN /\ pl # old
       /\ Len(fetches[d]) < MaxFetch
       /\ player' = [player EXCEPT ![d] = pl]
       /\ Commit(d, W)
       /\ fetches' = [fetches EXCEPT ![d] =
                         IF m.f.pc = "done" THEN @ ELSE Append(@, m.f)]
       /\ UNCHANGED <<devs, now>>

\* The media player of device d changes its state (playing / paused) and
\* keeps every attribute, the position sample included.
PlayerState(d, state) ==
    LET old == player[d]
        pl == [old EXCEPT !.state = state]
        W == notify_trackers(World(d), 1, pl, old.mid, pl.mid)
    IN /\ pl # old
       /\ player' = [player EXCEPT ![d] = pl]
       /\ Commit(d, W)
       /\ UNCHANGED <<devs, now, fetches>>

\* The media player entity of device d leaves the state machine: the event
\* has no new state, and hass.states.get() returns None from now on.
PlayerGone(d) ==
    LET old == player[d]
        pl == [present |-> FALSE, state |-> "idle", title |-> "", artist |-> <<>>,
               mid |-> "", pos |-> NoPos, upd |-> NoTime]
        W == notify_trackers(World(d), 1, pl, old.mid, pl.mid)
    IN /\ old.present
       /\ player' = [player EXCEPT ![d] = pl]
       /\ Commit(d, W)
       /\ UNCHANGED <<devs, now, fetches>>

\* handle_fetch_lyrics / monitor_playback_event: a fetch for the track the
\* player is playing (get_media_player_info).
RequestFromPlayer(d) ==
    LET pl == player[d] IN
    /\ Len(fetches[d]) < MaxFetch
    /\ pl.present /\ pl.state = "playing" /\ pl.title # "" /\ pl.artist # <<>>
    /\ fetches' = [fetches EXCEPT ![d] =
                      Append(@, NewFetch(pl.title, pl.artist, pl.pos, pl.upd, FALSE))]
    /\ UNCHANGED <<devs, now, just_started, player, display, sync, trackers, renders,
                   stops, watchdogs, last_media_id, faults, hist>>

\* trigger_lyrics_lookup: a fetch for a recognised song.
RequestTagged(d, track, offset_ms) ==
    /\ Len(fetches[d]) < MaxFetch
    /\ fetches' = [fetches EXCEPT ![d] =
                      Append(@, NewFetch(track.title, track.artist, offset_ms,
                                         now - FINETUNE_SYNC, TRUE))]
    /\ UNCHANGED <<devs, now, just_started, player, display, sync, trackers, renders,
                   stops, watchdogs, last_media_id, faults, hist>>

\* A fetch task runs from one await to the next.
FetchStep(d, j) ==
    LET f == fetches[d][j]
        r == fetch_resume(World(d), f, player[d])
    IN /\ f.pc # "query" \/ f.sub # ""
       /\ Resumable(World(d), f)
       /\ Commit(d, r.W)
       /\ fetches' = [fetches EXCEPT ![d] = Settle(@, j, r.f)]
       /\ UNCHANGED <<devs, now, player>>

\* The backend answers the pending query of a fetch task.
QueryReturns(d, j, lyrics_result) ==
    LET f == fetches[d][j]
        r == fetch_query_returns(World(d), f, player[d], lyrics_result)
    IN /\ f.pc = "query" /\ f.sub = ""
       /\ Commit(d, r.W)
       /\ fetches' = [fetches EXCEPT ![d] = Settle(@, j, r.f)]
       /\ UNCHANGED <<devs, now, player>>

\* The pending query of a fetch task fails with an exception.
QueryRaises(d, j) ==
    LET f == fetches[d][j]
        r == fetch_query_raises(World(d), f)
    IN /\ f.pc = "query" /\ f.sub = ""
       /\ Commit(d, r.W)
       /\ fetches' = [fetches EXCEPT ![d] = Settle(@, j, r.f)]
       /\ UNCHANGED <<devs, now, player>>

\* A spawned stop() task runs from one await to the next.
StopStep(d, j) ==
    LET f == stops[d][j]
        r == stop_resume(World(d), f)
    IN /\ Resumable(World(d), f)
       /\ Commit(d, [r.W EXCEPT !.stp = Settle(@, j, r.f)])
       /\ UNCHANGED <<devs, now, player, fetches>>

\* A render task performs its next service call.
RenderStep(d, j) ==
    LET f == renders[d][j]
        W == WriteLine(World(d), f.n, f.w, f.g)
    IN /\ Commit(d, [W EXCEPT !.ren = IF f.n = 3 THEN RemoveAt(@, j)
                                      ELSE SetAt(@, j, [f EXCEPT !.n = @ + 1])])
       /\ UNCHANGED <<devs, now, player, fetches>>

\* A watchdog task runs from one await to the next.
WatchdogStep(d, j) ==
    LET f == watchdogs[d][j]
        r == force_update_resume(World(d), f)
    IN /\ Commit(d, [r.W EXCEPT !.wd = Settle(@, j, r.f)])
       /\ UNCHANGED <<devs, now, player, fetches>>

\* The polling loop of tracker k wakes from its sleep.
PollTick(d, k) ==
    /\ trackers[d][k].monitor_task = "run"
    /\ Commit(d, position_monitor_loop(World(d), k))
    /\ UNCHANGED <<devs, now, player, fetches>>

\* An iteration of the polling loop of tracker k that does work fails.
PollRaises(d, k) ==
    LET tr == trackers[d][k] IN
    /\ tr.monitor_task = "run" /\ tr.tracking_active
    /\ tr.state = "playing" /\ tr.media_position # NoPos
    /\ Commit(d, position_monitor_raises(World(d), k))
    /\ UNCHANGED <<devs, now, player, fetches>>

\* The cancelled polling loop of tracker k ends.
PollCancelled(d, k) ==
    /\ trackers[d][k].monitor_task = "cancel"
    /\ Commit(d, [World(d) EXCEPT !.t[k].monitor_task = "done"])
    /\ UNCHANGED <<devs, now, player, fetches>>

\* --------------------------------------------------------- specification
Artist1 == <<"a1">>
Artist2 == <<"a1", "a2">>
Track1 == [title |-> "t1", artist |-> Artist1, mid |-> "id1"]
Track2 == [title |-> "t2", artist |-> Artist2, mid |-> "id2"]
Tracks == {Track1, Track2}
Positions == {0, 2000}

NoPlayer ==
    [present |-> TRUE, state |-> "idle", title |-> "", artist |-> <<>>, mid |-> "",
     pos |-> NoPos, upd |-> NoTime]

InitOf(D) ==
    /\ devs = D
    /\ now = 0
    /\ just_started = TRUE
    /\ player = [d \in D |-> NoPlayer]
    /\ display = [d \in D |-> Empty3]
    /\ sync = [d \in D |-> NewSynchronizer]
    /\ trackers = [d \in D |-> <<>>]
    /\ renders = [d \in D |-> <<>>]
    /\ stops = [d \in D |-> <<>>]
    /\ watchdogs = [d \in D |-> <<>>]
    /\ fetches = [d \in D |-> <<>>]
    /\ last_media_id = [d \in D |-> ""]
    /\ faults = [d \in D |-> {}]
    /\ hist = [d \in D |-> [stopped |-> {}, stale |-> FALSE, finished |-> 0,
                            changed |-> 0, settled |-> {}, noop |-> FALSE,
                            skipped |-> FALSE, held |-> FALSE,
                            wrote |-> 0, triggered |-> Empty3,
                            fired |-> ""]]

Init == InitOf({1})

Next ==
    \/ Tick
    \/ \E d \in devs :
        \/ \E st \in {"playing", "paused"}, tr \in Tracks, pos \in Positions :
               PlayerEvent(d, st, tr, pos)
        \/ \E st \in {"playing", "paused"}, tr \in Tracks, pos \in Positions :
               MonitoredEvent(d, st, tr, pos)
        \/ RequestFromPlayer(d)
        \/ \E tr \in Tracks, pos \in Positions : RequestTagged(d, tr, pos)
        \/ \E j \in 1..Len(fetches[d]) : FetchStep(d, j)
        \/ \E j \in 1..Len(fetches[d]), tr \in Tracks :
               \E res \in Answers(tr.title) :
                   fetches[d][j].track = tr.title /\ QueryReturns(d, j, res)
        \/ \E j \in 1..Len(fetches[d]) : QueryRaises(d, j)
        \/ \E st \in {"playing", "paused"} : PlayerState(d, st)
        \/ PlayerGone(d)
        \/ \E j \in 1..Len(stops[d]) : StopStep(d, j)
        \/ \E j \in 1..Len(renders[d]) : RenderStep(d, j)
        \/ \E j \in 1..Len(watchdogs[d]) : WatchdogStep(d, j)
        \/ \E k \in 1..Len(trackers[d]) : PollTick(d, k)
        \/ \E k \in 1..Len(trackers[d]) : PollRaises(d, k)
        \/ \E k \in 1..Len(trackers[d]) : PollCancelled(d, k)

Spec == Init /\ [][Next]_vars

\* ---------------------------------------------------------------- scenarios
\* hass.services.async_call(.., blocking=False) hands the call to the service
\* and returns without yielding to the other tasks of the loop: a coroutine
\* inside update_lyrics_entities keeps the loop until its third call is done.
InCall(f) == f.sub \in {"w2", "w3", "ret"}

Writing(d) ==
    \/ \E j \in 1..Len(fetches[d]) : InCall(fetches[d][j])
    \/ \E j \in 1..Len(stops[d]) : InCall(stops[d][j])
    \/ \E j \in 1..Len(watchdogs[d]) : InCall(watchdogs[d][j])
    \/ \E j \in 1..Len(renders[d]) : renders[d][j].n > 1

FetchTurn(d, j) == (Writing(d) => InCall(fetches[d][j])) /\ FetchStep(d, j)
StopTurn(d, j) == (Writing(d) => InCall(stops[d][j])) /\ StopStep(d, j)
\* A schedule other than the event loop's: a render task may start before
\* one created earlier.
RenderTurn_unordered(d, j) == (Writing(d) => renders[d][j].n > 1) /\ RenderStep(d, j)

\* The tasks that asyncio.create_task made ready start in the order of their
\* creation (the loop's ready queue is first in, first out), so the render
\* task that runs is the oldest one pending.
RenderTurn(d, j) ==
    /\ j = 1
    /\ Writing(d) => renders[d][j].n > 1
    /\ RenderStep(d, j)
WatchdogTurn(d, j) == (Writing(d) => InCall(watchdogs[d][j])) /\ WatchdogStep(d, j)

\* Recognised songs while the player plays: the player starts playing, then
\* up to MaxTrackers songs are recognised from the microphone, one after the
\* other and overlapping, all within one second: the fetches, the sessions
\* they start and stop, the polling loops, the tasks they spawn and the
\* watchdogs.  Within that second a watchdog of an active session only counts
\* its wake-ups, so it is scheduled when it starts and when its loop
\* condition has become false.
NextRecognised ==
    \/ \E d \in devs :
          /\ ~Writing(d) /\ player[d].mid = ""
          /\ trackers[d] = <<>> /\ fetches[d] = <<>>
          /\ PlayerEvent(d, "playing", Track2, 0)
    \/ \E d \in devs :
          /\ ~Writing(d) /\ Len(trackers[d]) + Len(fetches[d]) < MaxTrackers
          /\ RequestTagged(d, Track1, 0)
    \/ \E d \in devs : \E j \in 1..Len(fetches[d]) : FetchTurn(d, j)
    \/ \E d \in devs : \E j \in 1..Len(fetches[d]) :
          ~Writing(d) /\ QueryReturns(d, j, Synced(fetches[d][j].track))
    \/ \E d \in devs : \E j \in 1..Len(stops[d]) : StopTurn(d, j)
    \/ \E d \in devs : \E j \in 1..Len(renders[d]) : RenderTurn(d, j)
    \/ \E d \in devs : \E j \in 1..Len(watchdogs[d]) :
          /\ watchdogs[d][j].pc = "new" \/ ~sync[d].active
          /\ WatchdogTurn(d, j)
    \/ \E d \in devs : \E k \in 1..Len(trackers[d]) : ~Writing(d) /\ PollTick(d, k)
    \/ \E d \in devs : \E k \in 1..Len(trackers[d]) : ~Writing(d) /\ PollCancelled(d, k)

SpecRecognised == Init /\ [][NextRecognised]_vars

\* One session followed from the player: a single fetch for the playing
\* track, then the player's events (track changes, title changes, seeks), the
\* clock, the polling loop, and the stop and render tasks they spawn.
Track3 == [title |-> "t3", artist |-> Artist1, mid |-> "id1"]
PlayedTracks == {Track1, Track2, Track3}
PlayedPositions == {0, 1500}

NextPlayed ==
    \/ (\A d \in devs : ~Writing(d)) /\ Tick
    \/ \E d \in devs : \E tr \in PlayedTracks, pos \in PlayedPositions :
          ~Writing(d) /\ PlayerEvent(d, "playing", tr, pos)
    \/ \E d \in devs :
          /\ ~Writing(d) /\ Len(trackers[d]) = 0 /\ Len(fetches[d]) = 0
          /\ RequestFromPlayer(d)
    \/ \E d \in devs : \E j \in 1..Len(fetches[d]) : FetchTurn(d, j)
    \/ \E d \in devs : \E j \in 1..Len(fetches[d]) :
          ~Writing(d) /\ QueryReturns(d, j, Synced(fetches[d][j].track))
    \/ \E d \in devs : \E j \in 1..Len(stops[d]) : StopTurn(d, j)
    \/ \E d \in devs : \E j \in 1..Len(renders[d]) : RenderTurn(d, j)
    \/ \E d \in devs : \E k \in 1..Len(trackers[d]) : ~Writing(d) /\ PollTick(d, k)
    \/ \E d \in devs : \E k \in 1..Len(trackers[d]) : ~Writing(d) /\ PollCancelled(d, k)

SpecPlayed == Init /\ [][NextPlayed]_vars

\* Two fetches for the playing track, one after the other or overlapping,
\* and the player changing track meanwhile, all within one second.
NextChanged ==
    \/ \E d \in devs : \E tr \in {Track1, Track2} :
          ~Writing(d) /\ PlayerEvent(d, "playing", tr, 0)
    \/ \E d \in devs :
          /\ ~Writing(d) /\ Len(trackers[d]) + Len(fetches[d]) < 2
          /\ RequestFromPlayer(d)
    \/ \E d \in devs : \E j \in 1..Len(fetches[d]) : FetchTurn(d, j)
    \/ \E d \in devs : \E j \in 1..Len(fetches[d]) :
          ~Writing(d) /\ QueryReturns(d, j, Synced(fetches[d][j].track))
    \/ \E d \in devs : \E j \in 1..Len(stops[d]) : StopTurn(d, j)
    \/ \E d \in devs : \E j \in 1..Len(renders[d]) : RenderTurn(d, j)
    \/ \E d \in devs : \E k \in 1..Len(trackers[d]) : ~Writing(d) /\ PollTick(d, k)
    \/ \E d \in devs : \E k \in 1..Len(trackers[d]) : ~Writing(d) /\ PollCancelled(d, k)

SpecChanged == Init /\ [][NextChanged]_vars

\* One session followed through seeks and pauses: a single fetch, for the
\* playing track or for a recognised song, then the player on the same track
\* seeking, pausing and resuming while the clock advances.  A player event
\* carries a fresh position sample, no position fields at all, or (a change
\* of state only) the sample of the event before.
SeekPositions == {0, 1500, 8000}

NextPaused ==
    \/ (\A d \in devs : ~Writing(d)) /\ Tick
    \/ \E d \in devs : \E pos \in SeekPositions \cup {NoPos} :
          ~Writing(d) /\ PlayerEvent(d, "playing", Track1, pos)
    \/ \E d \in devs : \E st \in {"playing", "paused"} :
          ~Writing(d) /\ player[d].mid # "" /\ PlayerState(d, st)
    \/ \E d \in devs :
          /\ ~Writing(d) /\ Len(trackers[d]) = 0 /\ Len(fetches[d]) = 0
          /\ RequestFromPlayer(d)
    \/ \E d \in devs :
          /\ ~Writing(d) /\ Len(trackers[d]) = 0 /\ Len(fetches[d]) = 0
          /\ player[d].mid # ""
          /\ RequestTagged(d, Track1, 0)
    \/ \E d \in devs : \E j \in 1..Len(fetches[d]) : FetchTurn(d, j)
    \/ \E d \in devs : \E j \in 1..Len(fetches[d]) :
          ~Writing(d) /\ QueryReturns(d, j, Synced(fetches[d][j].track))
    \/ \E d \in devs : \E j \in 1..Len(stops[d]) : StopTurn(d, j)
    \/ \E d \in devs : \E j \in 1..Len(renders[d]) : RenderTurn(d, j)
    \/ \E d \in devs : \E k \in 1..Len(trackers[d]) : ~Writing(d) /\ PollTick(d, k)
    \/ \E d \in devs : \E k \in 1..Len(trackers[d]) : ~Writing(d) /\ PollCancelled(d, k)

SpecPaused == Init /\ [][NextPaused]_vars

\* Repeated fetches for the playing track: the player starts a track and
\* changes to the next one once, and up to MaxTrackers fetches for what it
\* plays are requested, one after the other or overlapping, all within one
\* second.
NextRefetched ==
    \/ \E d \in devs :
          /\ ~Writing(d) /\ player[d].mid = ""
          /\ PlayerEvent(d, "playing", Track1, 0)
    \/ \E d \in devs :
          /\ ~Writing(d) /\ player[d].mid = Track1.mid
          /\ PlayerEvent(d, "playing", Track2, 0)
    \/ \E d \in devs :
          /\ ~Writing(d) /\ Len(trackers[d]) + Len(fetches[d]) < MaxTrackers
          /\ RequestFromPlayer(d)
    \/ \E d \in devs : \E j \in 1..Len(fetches[d]) : FetchTurn(d, j)
    \/ \E d \in devs : \E j \in 1..Len(fetches[d]) :
          ~Writing(d) /\ QueryReturns(d, j, Synced(fetches[d][j].track))
    \/ \E d \in devs : \E j \in 1..Len(stops[d]) : StopTurn(d, j)
    \/ \E d \in devs : \E j \in 1..Len(renders[d]) : RenderTurn(d, j)
    \/ \E d \in devs : \E j \in 1..Len(watchdogs[d]) :
          /\ watchdogs[d][j].pc = "new" \/ ~sync[d].active
          /\ WatchdogTurn(d, j)
    \/ \E d \in devs : \E k \in 1..Len(trackers[d]) : ~Writing(d) /\ PollTick(d, k)
    \/ \E d \in devs : \E k \in 1..Len(trackers[d]) : ~Writing(d) /\ PollCancelled(d, k)

SpecRefetched == Init /\ [][NextRefetched]_vars

\* Fetches one after the other, from the player and from recognised songs,
\* while the player moves between a track and a radio station: the fetches
\* that are skipped, those that find nothing, and the sessions the others
\* start and replace, all within one second.
Station == [title |-> "r1", artist |-> Artist1, mid |-> "library://radio/1"]
NextFetched ==
    \/ \E d \in devs : \E tr \in {Track1, Station} :
          ~Writing(d) /\ PlayerEvent(d, "playing", tr, 1500)
    \/ \E d \in devs :
          /\ ~Writing(d) /\ fetches[d] = <<>> /\ Len(trackers[d]) < MaxSessions
          /\ RequestFromPlayer(d)
    \/ \E d \in devs :
          /\ ~Writing(d) /\ fetches[d] = <<>> /\ Len(trackers[d]) < MaxSessions
          /\ RequestTagged(d, Track2, 1500)
    \/ \E d \in devs : \E j \in 1..Len(fetches[d]) : FetchTurn(d, j)
    \/ \E d \in devs : \E j \in 1..Len(fetches[d]) :
          \E res \in {<<>>, Synced(fetches[d][j].track)} :
              ~Writing(d) /\ QueryReturns(d, j, res)
    \/ \E d \in devs : \E j \in 1..Len(stops[d]) : StopTurn(d, j)
    \/ \E d \in devs : \E j \in 1..Len(renders[d]) : RenderTurn(d, j)
    \/ \E d \in devs : \E k \in 1..Len(trackers[d]) : ~Writing(d) /\ PollTick(d, k)
    \/ \E d \in devs : \E k \in 1..Len(trackers[d]) : ~Writing(d) /\ PollCancelled(d, k)

SpecFetched == Init /\ [][NextFetched]_vars

\* One session whose player goes away: a single fetch for the playing
\* track, then the player pausing and resuming, reporting its state with a
\* position sample or without position fields, and its entity disappearing
\* and coming back, while the clock advances.
NextGone ==
    \/ (\A d \in devs : ~Writing(d)) /\ Tick
    \/ \E d \in devs : \E st \in {"playing", "paused"}, pos \in {1500, NoPos} :
          ~Writing(d) /\ PlayerEvent(d, st, Track1, pos)
    \/ \E d \in devs : ~Writing(d) /\ trackers[d] # <<>> /\ PlayerGone(d)
    \/ \E d \in devs :
          /\ ~Writing(d) /\ Len(trackers[d]) = 0 /\ Len(fetches[d]) = 0
          /\ RequestFromPlayer(d)
    \/ \E d \in devs : \E j \in 1..Len(fetches[d]) : FetchTurn(d, j)
    \/ \E d \in devs : \E j \in 1..Len(fetches[d]) :
          ~Writing(d) /\ QueryReturns(d, j, Synced(fetches[d][j].track))
    \/ \E d \in devs : \E j \in 1..Len(stops[d]) : StopTurn(d, j)
    \/ \E d \in devs : \E j \in 1..Len(renders[d]) : RenderTurn(d, j)
    \/ \E d \in devs : \E k \in 1..Len(trackers[d]) : ~Writing(d) /\ PollTick(d, k)
    \/ \E d \in devs : \E k \in 1..Len(trackers[d]) : ~Writing(d) /\ PollCancelled(d, k)

SpecGone == Init /\ [][NextGone]_vars

\* One session and its watchdog over a second: a single fetch for the
\* playing track, then the player reporting its position again, the clock,
\* the polling loop and an iteration of it that fails, the watchdog waking
\* from its sleeps, and the render and stop tasks.
NextWatched ==
    \/ (\A d \in devs : ~Writing(d)) /\ Tick
    \/ \E d \in devs : \E pos \in PlayedPositions :
          ~Writing(d) /\ PlayerEvent(d, "playing", Track1, pos)
    \/ \E d \in devs :
          /\ ~Writing(d) /\ Len(trackers[d]) = 0 /\ Len(fetches[d]) = 0
          /\ RequestFromPlayer(d)
    \/ \E d \in devs : \E j \in 1..Len(fetches[d]) : FetchTurn(d, j)
    \/ \E d \in devs : \E j \in 1..Len(fetches[d]) :
          ~Writing(d) /\ QueryReturns(d, j, Synced(fetches[d][j].track))
    \/ \E d \in devs : \E j \in 1..Len(stops[d]) : StopTurn(d, j)
    \/ \E d \in devs : \E j \in 1..Len(renders[d]) : RenderTurn(d, j)
    \/ \E d \in devs : \E j \in 1..Len(watchdogs[d]) : WatchdogTurn(d, j)
    \/ \E d \in devs : \E k \in 1..Len(trackers[d]) : ~Writing(d) /\ PollTick(d, k)
    \/ \E d \in devs : \E k \in 1..Len(trackers[d]) : ~Writing(d) /\ PollRaises(d, k)
    \/ \E d \in devs : \E k \in 1..Len(trackers[d]) : ~Writing(d) /\ PollCancelled(d, k)

SpecWatched == Init /\ [][NextWatched]_vars

\* The backend: the player plays a track, and fetches for it and for
\* recognised songs, whose artist strings have one part, two parts, or a
\* trailing separator, are answered one after the other with nothing, with
\* lyrics without timestamps, with synchronised lyrics or with an exception.
Track4 == [title |-> "t4", artist |-> <<"a1", "">>, mid |-> "id4"]

NextQueried ==
    \/ \E d \in devs :
          /\ ~Writing(d) /\ player[d].mid = ""
          /\ PlayerEvent(d, "playing", Track1, 0)
    \/ \E d \in devs :
          /\ ~Writing(d) /\ fetches[d] = <<>> /\ Len(trackers[d]) < MaxSessions
          /\ RequestFromPlayer(d)
    \/ \E d \in devs : \E tr \in {Track2, Track4} :
          /\ ~Writing(d) /\ fetches[d] = <<>> /\ Len(trackers[d]) < MaxSessions
          /\ RequestTagged(d, tr, 0)
    \/ \E d \in devs : \E j \in 1..Len(fetches[d]) : FetchTurn(d, j)
    \/ \E d \in devs : \E j \in 1..Len(fetches[d]) :
          \E res \in Answers(fetches[d][j].track) :
              ~Writing(d) /\ QueryReturns(d, j, res)
    \/ \E d \in devs : \E j \in 1..Len(fetches[d]) : ~Writing(d) /\ QueryRaises(d, j)
    \/ \E d \in devs : \E j \in 1..Len(stops[d]) : StopTurn(d, j)
    \/ \E d \in devs : \E j \in 1..Len(renders[d]) : RenderTurn(d, j)
    \/ \E d \in devs : \E k \in 1..Len(trackers[d]) : ~Writing(d) /\ PollTick(d, k)
    \/ \E d \in devs : \E k \in 1..Len(trackers[d]) : ~Writing(d) /\ PollCancelled(d, k)

SpecQueried == Init /\ [][NextQueried]_vars

\* The texts the lyrics backend may answer with: up to MaxLines lines, each
\* well-formed (with a text or without), without a timestamp, or with a
\* bracket that holds no time.
Lines ==
    {Stamped(0, 5000, "A"), Stamped(0, 10000, "B"), Stamped(1, 0, "C"),
     Stamped(0, 5000, ""), Plain("la"),
     Malformed("no_colon", "D"), Malformed("not_a_number", "D"),
     Malformed("infinite", "D")}
Texts == UNION {[1..n -> Lines] : n \in 1..MaxLines}

\* One parse: a single fetch for the track the player is playing from its
\* start, answered with any text, and the session that follows while the
\* clock advances.
NextParsed ==
    \/ (\A d \in devs : ~Writing(d)) /\ Tick
    \/ \E d \in devs :
          /\ ~Writing(d) /\ player[d].mid = ""
          /\ PlayerEvent(d, "playing", Track1, 0)
    \/ \E d \in devs :
          /\ ~Writing(d) /\ fetches[d] = <<>> /\ trackers[d] = <<>>
          /\ player[d].mid # "" /\ faults[d] = {}
          /\ RequestFromPlayer(d)
    \/ \E d \in devs : \E j \in 1..Len(fetches[d]) : FetchTurn(d, j)
    \/ \E d \in devs : \E j \in 1..Len(fetches[d]) : \E text \in Texts :
          ~Writing(d) /\ QueryReturns(d, j, text)
    \/ \E d \in devs : \E j \in 1..Len(renders[d]) : RenderTurn(d, j)
    \/ \E d \in devs : \E k \in 1..Len(trackers[d]) : ~Writing(d) /\ PollTick(d, k)

SpecParsed == Init /\ [][NextParsed]_vars

\* Two devices, each with its own player, entities and runtime data: on
\* each the player starts playing a track at 1.5 s and one fetch for it is
\* requested, answered with timed lyrics and followed by its session.  The
\* devices share the event loop: while a coroutine of one is inside a
\* service call nothing else runs.
InitTwo == InitOf({1, 2})

Others(d) == \A e \in devs \ {d} : ~Writing(e)

NextTwo ==
    \/ \E d \in devs : \E tr \in Tracks :
          /\ Others(d) /\ ~Writing(d) /\ player[d].mid = ""
          /\ PlayerEvent(d, "playing", tr, 1500)
    \/ \E d \in devs :
          /\ Others(d) /\ ~Writing(d) /\ fetches[d] = <<>> /\ trackers[d] = <<>>
          /\ RequestFromPlayer(d)
    \/ \E d \in devs : \E j \in 1..Len(fetches[d]) : Others(d) /\ FetchTurn(d, j)
    \/ \E d \in devs : \E j \in 1..Len(fetches[d]) :
          Others(d) /\ ~Writing(d) /\ QueryReturns(d, j, Synced(fetches[d][j].track))
    \/ \E d \in devs : \E j \in 1..Len(renders[d]) : Others(d) /\ RenderTurn(d, j)
    \/ \E d \in devs : \E k \in 1..Len(trackers[d]) :
          Others(d) /\ ~Writing(d) /\ PollTick(d, k)

SpecTwo == InitTwo /\ [][NextTwo]_vars

\* One session and its renders: a single fetch for the playing track, then
\* the player seeking between two positions while the clock advances, the
\* polling loop and the render tasks it creates.
NextRendered ==
    \/ (\A d \in devs : ~Writing(d)) /\ Tick
    \/ \E d \in devs : \E pos \in PlayedPositions :
          ~Writing(d) /\ PlayerEvent(d, "playing", Track1, pos)
    \/ \E d \in devs :
          /\ ~Writing(d) /\ Len(trackers[d]) = 0 /\ Len(fetches[d]) = 0
          /\ RequestFromPlayer(d)
    \/ \E d \in devs : \E j \in 1..Len(fetches[d]) : FetchTurn(d, j)
    \/ \E d \in devs : \E j \in 1..Len(fetches[d]) :
          ~Writing(d) /\ QueryReturns(d, j, Synced(fetches[d][j].track))
    \/ \E d \in devs : \E j \in 1..Len(renders[d]) : RenderTurn(d, j)
    \/ \E d \in devs : \E k \in 1..Len(trackers[d]) : ~Writing(d) /\ PollTick(d, k)

SpecRendered == Init /\ [][NextRendered]_vars

\* A running session seen some time after its tracker took its sample: the
\* sample (position, timestamp) is up to MaxAge seconds old, the source is
\* continuous or not, the player is playing, paused or idle.  Then the clock,
\* the polling loop, the player pausing and resuming, and the tasks they
\* create.
InitPositioned ==
    \E radio \in BOOLEAN, st \in PlayerStates, pos \in PlayedPositions, age \in 0..MaxAge :
        /\ devs = {1}
        /\ now = 0
        /\ just_started = FALSE
        /\ player = [d \in {1} |->
                        [present |-> TRUE, state |-> st, title |-> Track1.title,
                         artist |-> Track1.artist, mid |-> Track1.mid,
                         pos |-> pos, upd |-> 0 - age]]
        /\ display = [d \in {1} |-> FirstLines(lyricSplit(Synced("t1")).lrc)]
        /\ sync = [d \in {1} |->
                      [NewSynchronizer EXCEPT
                          !.exists = TRUE, !.active = TRUE, !.media_tracker = 1,
                          !.current_track = Track1.title,
                          !.current_artist = Track1.artist,
                          !.timeline = lyricSplit(Synced("t1")).timeline,
                          !.lyrics = lyricSplit(Synced("t1")).lrc,
                          !.gen = 1]]
        /\ trackers = [d \in {1} |->
                          <<[NewTracker(radio) EXCEPT
                                !.tracking_active = TRUE, !.monitor_task = "run",
                                !.listening = TRUE, !.state = st,
                                !.current_track = Track1.title,
                                !.current_artist = Track1.artist,
                                !.media_content_id = Track1.mid,
                                !.media_position = pos,
                                !.position_updated_at = 0 - age]>>]
        /\ renders = [d \in {1} |-> <<>>]
        /\ stops = [d \in {1} |-> <<>>]
        /\ watchdogs = [d \in {1} |-> <<>>]
        /\ fetches = [d \in {1} |-> <<>>]
        /\ last_media_id = [d \in {1} |-> Track1.mid]
        /\ faults = [d \in {1} |-> {}]
        /\ hist = [d \in {1} |-> [stopped |-> {}, stale |-> FALSE, finished |-> 0,
                                  changed |-> 0, settled |-> {}, noop |-> FALSE,
                                  skipped |-> FALSE, held |-> FALSE,
                                  wrote |-> 0, triggered |-> Empty3,
                                  fired |-> ""]]

NextPositioned ==
    \/ (\A d \in devs : ~Writing(d)) /\ Tick
    \/ \E d \in devs : \E st \in {"playing", "paused"} : ~Writing(d) /\ PlayerState(d, st)
    \/ \E d \in devs : \E j \in 1..Len(stops[d]) : StopTurn(d, j)
    \/ \E d \in devs : \E j \in 1..Len(renders[d]) : RenderTurn(d, j)
    \/ \E d \in devs : \E k \in 1..Len(trackers[d]) : ~Writing(d) /\ PollTick(d, k)
    \/ \E d \in devs : \E k \in 1..Len(trackers[d]) : ~Writing(d) /\ PollCancelled(d, k)

SpecPositioned == InitPositioned /\ [][NextPositioned]_vars

\* A session after another: the player plays a track at 1.5 s and then the
\* next one, for which it reports no position at first; a fetch is
\* requested for what it plays, one at a time, answered with the track's
\* lyrics or with lyrics of one line, and each starts a session, while the
\* clock advances and the polling loops run.
OneLine == <<Stamped(0, 1000, "S")>>

NextRestarted ==
    \/ (\A d \in devs : ~Writing(d)) /\ Tick
    \/ \E d \in devs :
          /\ ~Writing(d) /\ player[d].mid = ""
          /\ PlayerEvent(d, "playing", Track1, 1500)
    \/ \E d \in devs : \E pos \in {NoPos, 1500} :
          /\ ~Writing(d) /\ player[d].mid \in {Track1.mid, Track2.mid}
          /\ PlayerEvent(d, "playing", Track2, pos)
    \/ \E d \in devs :
          /\ ~Writing(d) /\ fetches[d] = <<>> /\ Len(trackers[d]) < MaxSessions
          /\ RequestFromPlayer(d)
    \/ \E d \in devs : \E j \in 1..Len(fetches[d]) : FetchTurn(d, j)
    \/ \E d \in devs : \E j \in 1..Len(fetches[d]) :
          \E res \in {Synced(fetches[d][j].track), OneLine} :
              ~Writing(d) /\ QueryReturns(d, j, res)
    \/ \E d \in devs : \E j \in 1..Len(stops[d]) : StopTurn(d, j)
    \/ \E d \in devs : \E j \in 1..Len(renders[d]) : RenderTurn(d, j)
    \/ \E d \in devs : \E k \in 1..Len(trackers[d]) : ~Writing(d) /\ PollTick(d, k)
    \/ \E d \in devs : \E k \in 1..Len(trackers[d]) : ~Writing(d) /\ PollCancelled(d, k)

SpecRestarted == Init /\ [][NextRestarted]_vars

\* Songs recognised on a radio station, one at a time: the player plays the
\* station, a song is recognised at an offset just before a line, at the
\* start or past the last line, and the fetch for it starts a session on a
\* continuous source.
TunedOffsets == {0, 800, 2500}

NextTuned ==
    \/ \E d \in devs :
          /\ ~Writing(d) /\ player[d].mid = ""
          /\ PlayerEvent(d, "playing", Station, NoPos)
    \/ \E d \in devs : \E offset_ms \in TunedOffsets :
          /\ ~Writing(d) /\ fetches[d] = <<>> /\ Len(trackers[d]) < MaxSessions
          /\ player[d].mid # ""
          /\ RequestTagged(d, Track1, offset_ms)
    \/ \E d \in devs : \E j \in 1..Len(fetches[d]) : FetchTurn(d, j)
    \/ \E d \in devs : \E j \in 1..Len(fetches[d]) :
          ~Writing(d) /\ QueryReturns(d, j, Synced(fetches[d][j].track))
    \/ \E d \in devs : \E j \in 1..Len(stops[d]) : StopTurn(d, j)
    \/ \E d \in devs : \E j \in 1..Len(renders[d]) : RenderTurn(d, j)
    \/ \E d \in devs : \E k \in 1..Len(trackers[d]) : ~Writing(d) /\ PollTick(d, k)
    \/ \E d \in devs : \E k \in 1..Len(trackers[d]) : ~Writing(d) /\ PollCancelled(d, k)

SpecTuned == Init /\ [][NextTuned]_vars

\* Two fetches that overlap: the player starts on one track, a fetch is
\* requested for it, and while that fetch awaits the backend the player
\* changes to the next track and a second fetch is requested.  The backend
\* answers the two queries in either order.
Overlapping(d) ==
    /\ Len(fetches[d]) = 1 /\ fetches[d][1].pc = "query"
    /\ fetches[d][1].track = Track1.title /\ Len(trackers[d]) = 0

NextOverlapped ==
    \/ (\A d \in devs : ~Writing(d)) /\ Tick
    \/ \E d \in devs :
          /\ ~Writing(d) /\ player[d].mid = ""
          /\ PlayerEvent(d, "playing", Track1, 0)
    \/ \E d \in devs :
          /\ ~Writing(d) /\ player[d].mid = Track1.mid /\ Overlapping(d)
          /\ PlayerEvent(d, "playing", Track2, 0)
    \/ \E d \in devs :
          /\ ~Writing(d) /\ player[d].mid = Track1.mid
          /\ fetches[d] = <<>> /\ trackers[d] = <<>> /\ last_media_id[d] = ""
          /\ RequestFromPlayer(d)
    \/ \E d \in devs :
          /\ ~Writing(d) /\ player[d].mid = Track2.mid /\ Overlapping(d)
          /\ RequestFromPlayer(d)
    \/ \E d \in devs : \E j \in 1..Len(fetches[d]) : FetchTurn(d, j)
    \/ \E d \in devs : \E j \in 1..Len(fetches[d]) :
          ~Writing(d) /\ QueryReturns(d, j, Synced(fetches[d][j].track))
    \/ \E d \in devs : \E j \in 1..Len(renders[d]) : RenderTurn(d, j)
    \/ \E d \in devs : \E k \in 1..Len(trackers[d]) : ~Writing(d) /\ PollTick(d, k)
    \/ \E d \in devs : \E k \in 1..Len(trackers[d]) : ~Writing(d) /\ PollCancelled(d, k)

SpecOverlapped == Init /\ [][NextOverlapped]_vars

\* The first session after startup, followed to the end of the work it has
\* scheduled: the player is playing a track (with a position sample), for
\* which a fetch is requested, or a radio station (no position), on which a
\* song is recognised; the fetch, the backend, the render tasks and the
\* polling loop run.  Every task that is
\* ready is run by the event loop, the executor job of a query returns, and
\* the sleep of the polling loop ends: each of these steps is weakly fair.
NextStarted ==
    \/ (\A d \in devs : ~Writing(d)) /\ Tick
    \/ \E d \in devs :
          /\ ~Writing(d) /\ player[d].mid = ""
          /\ PlayerEvent(d, "playing", Station, NoPos)
    \/ \E d \in devs : \E tr \in Tracks :
          /\ ~Writing(d) /\ player[d].mid = ""
          /\ PlayerEvent(d, "playing", tr, 0)
    \/ \E d \in devs :
          /\ ~Writing(d) /\ fetches[d] = <<>> /\ trackers[d] = <<>>
          /\ player[d].mid \in {Track1.mid, Track2.mid}
          /\ RequestFromPlayer(d)
    \/ \E d \in devs : \E offset_ms \in TunedOffsets :
          /\ ~Writing(d) /\ fetches[d] = <<>> /\ trackers[d] = <<>>
          /\ player[d].mid = Station.mid
          /\ RequestTagged(d, Track1, offset_ms)
    \/ \E d \in devs : \E j \in 1..Len(fetches[d]) : FetchTurn(d, j)
    \/ \E d \in devs : \E j \in 1..Len(fetches[d]) :
          ~Writing(d) /\ QueryReturns(d, j, Synced(fetches[d][j].track))
    \/ \E d \in devs : \E j \in 1..Len(renders[d]) : RenderTurn(d, j)
    \/ \E d \in devs : \E k \in 1..Len(trackers[d]) : ~Writing(d) /\ PollTick(d, k)

FairStarted ==
    /\ WF_vars(\E d \in devs : \E j \in 1..Len(fetches[d]) : FetchTurn(d, j))
    /\ WF_vars(\E d \in devs : \E j \in 1..Len(fetches[d]) :
                  ~Writing(d) /\ QueryReturns(d, j, Synced(fetches[d][j].track)))
    /\ WF_vars(\E d \in devs : \E j \in 1..Len(renders[d]) : RenderTurn(d, j))
    /\ WF_vars(\E d \in devs : \E k \in 1..Len(trackers[d]) :
                  ~Writing(d) /\ PollTick(d, k))

SpecStarted == Init /\ [][NextStarted]_vars /\ FairStarted

\* The playback monitor at work: the player starts, changes track, pauses
\* and resumes, and every event runs the monitor; the fetches it starts, the
\* backend, and the tasks of the sessions run in between.
NextMonitored ==
    \/ \E d \in devs : \E tr \in Tracks :
          /\ ~Writing(d) /\ Len(trackers[d]) < MaxSessions
          /\ MonitoredEvent(d, "playing", tr, 0)
    \/ \E d \in devs : \E tr \in Tracks :
          /\ ~Writing(d) /\ Len(trackers[d]) < MaxSessions
          /\ tr.mid = player[d].mid
          /\ MonitoredEvent(d, "paused", tr, 0)
    \/ \E d \in devs : \E j \in 1..Len(fetches[d]) : FetchTurn(d, j)
    \/ \E d \in devs : \E j \in 1..Len(fetches[d]) :
          ~Writing(d) /\ QueryReturns(d, j, Synced(fetches[d][j].track))
    \/ \E d \in devs : \E j \in 1..Len(stops[d]) : StopTurn(d, j)
    \/ \E d \in devs : \E j \in 1..Len(renders[d]) : RenderTurn(d, j)
    \/ \E d \in devs : \E k \in 1..Len(trackers[d]) : ~Writing(d) /\ PollTick(d, k)
    \/ \E d \in devs : \E k \in 1..Len(trackers[d]) : ~Writing(d) /\ PollCancelled(d, k)

SpecMonitored == Init /\ [][NextMonitored]_vars

\* =================================================================== claims
Running(d) == {k \in 1..Len(trackers[d]) : trackers[d][k].monitor_task = "run"}

\* No fetch, stop or render task is pending on device d and no polling loop
\* is being cancelled: nothing more happens unless a new event arrives.
Idle(d) ==
    /\ fetches[d] = <<>> /\ stops[d] = <<>> /\ renders[d] = <<>>
    /\ \A k \in 1..Len(trackers[d]) : trackers[d][k].monitor_task # "cancel"

\* C1 -- on every device, in every reachable state, at most one polling loop
\* of a position tracker is running (there is one synchronizer per device,
\* hence at most one active session).
AtMostOneLoop == \A d \in devs : Cardinality(Running(d)) <= 1

\* C2 -- once a stop() has returned, the background tasks of the session it
\* stopped are over: the polling loop of the session's tracker and the
\* session's watchdog task.
StoppedTasksOver ==
    \A d \in devs :
        /\ \A g \in hist[d].stopped : g \notin Running(d)
        /\ \A j \in 1..Len(watchdogs[d]) : watchdogs[d][j].session \notin hist[d].stopped

\* C6 -- a session that was notified of a position at or past its last
\* timestamp ends: once nothing is pending any more, it has been seen
\* inactive with its polling loop over and the display cleared.
FinishedSessionEnds ==
    \A d \in devs :
        (hist[d].finished > 0 /\ Idle(d)) => hist[d].finished \in hist[d].settled

\* C7 -- an active session that was notified of a track change ends: once
\* nothing is pending any more, it has been seen inactive with its polling
\* loop over and the display cleared.
ChangedSessionEnds ==
    \A d \in devs :
        (hist[d].changed > 0 /\ Idle(d)) => hist[d].changed \in hist[d].settled

\* C3 -- no text computed for a session is written to the display after a
\* stop() of that session has returned.
NoStaleWrite == \A d \in devs : ~hist[d].stale

\* C4 -- a stop() that begins on an inactive session returns at once and
\* changes neither the synchronizer, nor a tracker, nor the display, and
\* raises nothing.
SecondStopChangesNothing(d, j) ==
    (stops[d][j].pc = "new" /\ ~sync[d].active /\ StopStep(d, j))
        => /\ sync'[d] = sync[d]
           /\ trackers'[d] = trackers[d]
           /\ display'[d] = display[d]
           /\ faults'[d] = faults[d]
           /\ renders'[d] = renders[d]
           /\ Len(stops'[d]) = Len(stops[d]) - 1

StopIdempotent ==
    [][\A d \in devs : \A j \in 1..Len(stops[d]) : SecondStopChangesNothing(d, j)]_vars

\* A stop() found the session inactive after an earlier stop() had returned;
\* the session is inactive, no tracker is bound and the display is cleared.
StoppedTwice ==
    \E d \in devs :
        /\ hist[d].noop /\ hist[d].stopped # {} /\ stops[d] = <<>>
        /\ ~sync[d].active /\ sync[d].media_tracker = 0 /\ display[d] = Empty3

\* C5 -- a position update with timeline[i] <= position < timeline[i + 1]
\* (1-based) on an active session with a monotonic timeline makes line i the
\* active one and, when the active line changes by it, renders
\* (line i - 1 or "", line i, line i + 1 or "").
Monotonic(timeline) ==
    \A i \in 1..(Len(timeline) - 1) : timeline[i] <= timeline[i + 1]

Around(lines, i) ==
    << IF i - 1 >= 1 THEN lines[i - 1] ELSE "",
       lines[i],
       IF i + 1 <= Len(lines) THEN lines[i + 1] ELSE "" >>

LookupOnUpdate(d, k) ==
    LET s == sync[d]
        tr == trackers[d][k]
        p == calculate_current_position(tr)
    IN (/\ PollTick(d, k)
        /\ tr.tracking_active /\ tr.state = "playing" /\ tr.media_position # NoPos
        /\ s.active /\ s.timeline # <<>> /\ Monotonic(s.timeline))
       => \A i \in 1..(Len(s.timeline) - 1) :
              (s.timeline[i] <= p /\ p < s.timeline[i + 1])
              => /\ sync'[d].current_line_index = i - 1
                 /\ IF s.current_line_index # i - 1
                    THEN /\ Len(renders'[d]) = Len(renders[d]) + 1
                         /\ Last(renders'[d]).w = Around(s.lyrics, i)
                    ELSE renders'[d] = renders[d]

PositionLookup ==
    [][\A d \in devs : \A k \in 1..Len(trackers[d]) : LookupOnUpdate(d, k)]_vars

\* The position 1500 of the timeline <<0, 1000, 2000>> with lines A, B, C has
\* been looked up and rendered: previous A, current B, next C.
MiddleLineShown ==
    \E d \in devs :
        /\ sync[d].active /\ sync[d].timeline = <<0, 1000, 2000>>
        /\ sync[d].current_line_index = 1
        /\ sync[d].media_tracker # 0
        /\ calculate_current_position(trackers[d][sync[d].media_tracker]) = 1500
        /\ display[d] = <<"A", "B", "C">>

\* C8 -- a player event that only moves the position (same title, artist and
\* content id) makes the synchronizer look up the line at the bound
\* tracker's new position estimate and spawn its render in the same step, or
\* show no active line when the position is in no interval; the timeline,
\* the lines, the bound tracker and the active flag stay as they are, and no
\* fetch and no stop is started.
Listening(d) == {k \in 1..Len(trackers[d]) : trackers[d][k].listening}

SeekResyncs(d) ==
    LET s == sync[d]
        k == s.media_tracker
        old == player[d]
        new == player'[d]
    IN (/\ new # old
        /\ new.title = old.title /\ new.artist = old.artist /\ new.mid = old.mid
        /\ k # 0 /\ Listening(d) = {k}
        /\ ~trackers[d][k].is_radio_source
        /\ trackers[d][k].media_position # NoPos
        /\ new.pos # NoPos /\ new.pos # trackers[d][k].media_position)
       => /\ sync'[d].timeline = s.timeline
          /\ sync'[d].lyrics = s.lyrics
          /\ sync'[d].media_tracker = k
          /\ sync'[d].active = s.active
          /\ fetches'[d] = fetches[d]
          /\ stops'[d] = stops[d]
          /\ LET p == calculate_current_position(trackers'[d][k])
                 at == {i \in 1..(Len(s.timeline) - 1) :
                           s.timeline[i] <= p /\ p < s.timeline[i + 1]}
             IN IF at = {}
                THEN sync'[d].current_line_index = -1 /\ renders'[d] = renders[d]
                ELSE \A i \in at :
                        /\ sync'[d].current_line_index = i - 1
                        /\ Len(renders'[d]) = Len(renders[d]) + 1
                        /\ Last(renders'[d]).w = Around(s.lyrics, i)

SeekFrame == [][\A d \in devs : SeekResyncs(d)]_vars

\* A seek back from line B to the start has been resynchronised: line A is
\* the active one and its render is on its way while B is still shown.
SeekBackResynced ==
    \E d \in devs :
        /\ sync[d].media_tracker # 0
        /\ trackers[d][sync[d].media_tracker].media_position = 0
        /\ sync[d].timeline = <<0, 1000, 2000>> /\ sync[d].current_line_index = 0
        /\ display[d] = <<"A", "B", "C">>
        /\ renders[d] = <<[w |-> <<"", "A", "B">>, n |-> 1, g |-> sync[d].gen]>>

\* C9 -- a player event whose content id differs from the previous one makes
\* every listening tracker fire the change callback with flag true, whatever
\* the positions of the two samples: each callback spawns a stop() and none
\* of them a render.
ContentIdChanges(d) ==
    (player'[d] # player[d] /\ player'[d].mid # player[d].mid)
        => /\ Len(stops'[d]) = Len(stops[d]) + Cardinality(Listening(d))
           /\ renders'[d] = renders[d]

ContentIdChangeIsTrackChange == [][\A d \in devs : ContentIdChanges(d)]_vars

\* An active session has been notified of a track change that came with a
\* new position, and its stop() is spawned.
TrackChangeNotified ==
    \E d \in devs :
        /\ sync[d].active /\ hist[d].changed = sync[d].gen /\ stops[d] # <<>>
        /\ sync[d].media_tracker # 0
        /\ trackers[d][sync[d].media_tracker].media_content_id = "id2"
        /\ trackers[d][sync[d].media_tracker].media_position = 1500
        /\ sync[d].timeline = <<0, 1000, 2000>>

\* C10 -- a player event whose title, artist or content id differs from the
\* previous one makes every listening tracker fire the change callback with
\* flag true: each callback spawns a stop() and none of them a render.
IdentityChanges(d) ==
    (/\ player'[d] # player[d]
     /\ \/ player'[d].title # player[d].title
        \/ player'[d].artist # player[d].artist
        \/ player'[d].mid # player[d].mid)
        => /\ Len(stops'[d]) = Len(stops[d]) + Cardinality(Listening(d))
           /\ renders'[d] = renders[d]

IdentityChangeIsTrackChange == [][\A d \in devs : IdentityChanges(d)]_vars

\* C11 -- a player event on the same track (title, artist and content id as
\* before) whose position differs from the previous sample's by more than
\* the seek threshold makes a listening tracker of a non-continuous source
\* fire the change callback with flag false and never with flag true: no
\* stop() is spawned, and the synchronizer resynchronises at the bound
\* tracker's new position (the render of the line there, or no active line
\* when the position is in no interval).
SamePlayerTrack(d) ==
    /\ player'[d] # player[d]
    /\ player'[d].title = player[d].title
    /\ player'[d].artist = player[d].artist
    /\ player'[d].mid = player[d].mid

SeekNotifies(d) ==
    LET s == sync[d]
        k == s.media_tracker
    IN (/\ SamePlayerTrack(d)
        /\ player[d].pos # NoPos /\ player'[d].pos # NoPos
        /\ Abs(player'[d].pos - player[d].pos) > seek_threshold
        /\ Listening(d) # {}
        /\ \A j \in Listening(d) : ~trackers[d][j].is_radio_source)
       => /\ stops'[d] = stops[d]
          /\ \A j \in Listening(d) : trackers'[d][j].media_position = player'[d].pos
          /\ (k # 0 /\ Listening(d) = {k}) =>
                LET p == calculate_current_position(trackers'[d][k])
                    at == {i \in 1..(Len(s.timeline) - 1) :
                              s.timeline[i] <= p /\ p < s.timeline[i + 1]}
                IN IF at = {}
                   THEN sync'[d].current_line_index = -1 /\ renders'[d] = renders[d]
                   ELSE \A i \in at :
                           /\ sync'[d].current_line_index = i - 1
                           /\ Len(renders'[d]) = Len(renders[d]) + 1
                           /\ Last(renders'[d]).w = Around(s.lyrics, i)

SeekIsNotTrackChange == [][\A d \in devs : SeekNotifies(d)]_vars

\* A seek forward to 8 seconds, from line B or from the start, was notified as
\* a seek: line B is still shown, the session is still active with no active
\* line, and neither a render nor a stop() is on its way.
LongSeekResynced ==
    \E d \in devs :
        /\ sync[d].active /\ sync[d].media_tracker # 0
        /\ ~trackers[d][sync[d].media_tracker].is_radio_source
        /\ trackers[d][sync[d].media_tracker].media_position = 8000
        /\ player[d].pos = 8000
        /\ sync[d].current_line_index = -1
        /\ display[d] = <<"A", "B", "C">>
        /\ renders[d] = <<>> /\ stops[d] = <<>>

\* C12 -- a player event on the same track whose position differs from the
\* previous sample's by no more than the seek threshold makes no tracker of
\* a non-continuous source fire the change callback: the synchronizer, the
\* render tasks and the stop tasks are as before.
AdvanceIsSilent(d) ==
    (/\ SamePlayerTrack(d)
     /\ player[d].pos # NoPos /\ player'[d].pos # NoPos
     /\ Abs(player'[d].pos - player[d].pos) <= seek_threshold
     /\ \A j \in Listening(d) : ~trackers[d][j].is_radio_source)
    => /\ sync'[d] = sync[d]
       /\ renders'[d] = renders[d]
       /\ stops'[d] = stops[d]

NoNotificationOnAdvance == [][\A d \in devs : AdvanceIsSilent(d)]_vars

\* C13 -- a player event that resumes playback on the same track, carrying
\* no position fields or the very sample the tracker holds, leaves a
\* paused tracker of a non-continuous source at the position it had at the
\* moment of the pause, however long the pause was; the sample of a tracker
\* of a continuous source is left as it is.
position_at_pause(tr) ==
    tr.media_position + 1000 * (tr.pause_start_time - tr.position_updated_at)

ResumeKeepsPosition(d, k) ==
    LET tr == trackers[d][k]
    IN (/\ SamePlayerTrack(d)
        /\ tr.listening /\ tr.state = "paused" /\ tr.pause_start_time # NoTime
        /\ player'[d].state = "playing"
        /\ tr.media_position # NoPos /\ tr.position_updated_at # NoTime
        /\ tr.position_updated_at <= tr.pause_start_time
        /\ \/ player'[d].pos = NoPos
           \/ /\ player'[d].pos = tr.media_position
              /\ player'[d].upd = tr.position_updated_at)
       => IF tr.is_radio_source
          THEN /\ trackers'[d][k].media_position = tr.media_position
               /\ trackers'[d][k].position_updated_at = tr.position_updated_at
          ELSE calculate_current_position(trackers'[d][k]) = position_at_pause(tr)

PauseLeavesPosition ==
    [][\A d \in devs : \A k \in 1..Len(trackers[d]) : ResumeKeepsPosition(d, k)]_vars

\* C14 -- a fetch that is not fingerprint-triggered and reaches the
\* de-duplication while a session is active for the very (title, artist) it
\* asks for, showing that track's lyrics, ends there: it makes no backend query, and the synchronizer
\* (active flag, bound tracker, timeline, lines) and the trackers are as
\* before.
AtDeduplication(f) == f.pc = "searching" /\ f.sub = "ret"

RepeatedFetchSkips(d, j) ==
    LET f == fetches[d][j]
        s == sync[d]
    IN (/\ AtDeduplication(f) /\ ~f.audiofingerprint
        /\ s.active /\ s.current_track = f.track /\ s.current_artist = f.artist
        /\ s.timeline = lyricSplit(Synced(f.track)).timeline
        /\ FetchStep(d, j))
       => /\ fetches'[d] = RemoveAt(fetches[d], j)
          /\ sync'[d] = s
          /\ trackers'[d] = trackers[d]

NoSecondSession ==
    [][\A d \in devs : \A j \in 1..Len(fetches[d]) : RepeatedFetchSkips(d, j)]_vars

\* C15 -- a fingerprint-triggered fetch that finds a session active enters
\* its stop() whatever the session shows: the session is inactive and the
\* polling loop of its tracker is cancelled when the fetch next yields; and
\* the step in which such a fetch comes back from start() leaves a session
\* active on the timeline the fetch parsed, bound to a tracker constructed by
\* that start() whose polling loop runs.
FingerprintStops(d, j) ==
    LET f == fetches[d][j]
        k == sync[d].media_tracker
    IN (/\ AtDeduplication(f) /\ f.audiofingerprint /\ sync[d].active
        /\ FetchStep(d, j))
       => /\ ~sync'[d].active
          /\ Len(fetches'[d]) = Len(fetches[d]) /\ fetches'[d][j].pc = "stopping"
          /\ (k # 0 => /\ ~trackers'[d][k].tracking_active
                        /\ trackers'[d][k].monitor_task # "run")

FingerprintStarts(d, j) ==
    LET f == fetches[d][j]
        parsed == IF f.pc = "query" THEN lyricSplit(Synced(f.track)).timeline
                  ELSE f.timeline
        n == sync'[d].media_tracker
    IN (/\ f.audiofingerprint
        /\ f.pc \in {"query", "start_stop", "start_provisional"}
        /\ (FetchStep(d, j) \/ QueryReturns(d, j, Synced(f.track)))
        /\ fetches'[d] = RemoveAt(fetches[d], j))
       => /\ sync'[d].active /\ sync'[d].timeline = parsed
          /\ n # 0
          /\ IF f.pc = "start_provisional" THEN n = f.g
             ELSE (n = Len(trackers[d]) + 1 /\ Len(trackers'[d]) = n)
          /\ trackers'[d][n].monitor_task = "run"
          /\ trackers'[d][n].is_radio_source

FingerprintReplaces ==
    [][\A d \in devs : \A j \in 1..Len(fetches[d]) :
          FingerprintStops(d, j) /\ FingerprintStarts(d, j)]_vars

\* A second recognition of the same song has replaced the session of the
\* first: the first session's stop() has returned and its polling loop is
\* over, the second session is active on its own tracker.
SameSongReplaced ==
    \E d \in devs :
        /\ fetches[d] = <<>> /\ stops[d] = <<>>
        /\ sync[d].active /\ sync[d].gen = 2 /\ sync[d].media_tracker = 2
        /\ sync[d].timeline = <<0, 1000, 2000>>
        /\ Len(trackers[d]) = 2
        /\ trackers[d][1].monitor_task = "none" /\ trackers[d][2].monitor_task = "run"
        /\ 1 \in hist[d].stopped

\* C16 -- a fetch that is not fingerprint-triggered and begins while the
\* player's content id is a radio stream returns at once: no backend query,
\* and the synchronizer, the trackers, the display, the last-processed media
\* id, the just-started flag and the spawned tasks are as before; a
\* fingerprint-triggered fetch on the same stream goes on to announce its
\* search.
OnRadio(d) == player[d].present /\ IsRadioId(player[d].mid)

RadioFetchSkipped(d, j) ==
    LET f == fetches[d][j]
    IN (f.pc = "new" /\ OnRadio(d) /\ FetchStep(d, j))
       => IF f.audiofingerprint
          THEN /\ Len(fetches'[d]) = Len(fetches[d])
               /\ fetches'[d][j].pc = "searching"
               /\ fetches'[d][j].w = <<"", "Searching for lyrics...", "">>
          ELSE /\ fetches'[d] = RemoveAt(fetches[d], j)
               /\ sync'[d] = sync[d]
               /\ trackers'[d] = trackers[d]
               /\ display'[d] = display[d]
               /\ last_media_id'[d] = last_media_id[d]
               /\ just_started' = just_started
               /\ renders'[d] = renders[d] /\ stops'[d] = stops[d]
               /\ watchdogs'[d] = watchdogs[d]
               /\ faults'[d] = faults[d]

RadioShortCircuit ==
    [][\A d \in devs : \A j \in 1..Len(fetches[d]) : RadioFetchSkipped(d, j)]_vars

\* A fetch for what the radio station plays was skipped before any other
\* got anywhere, and a recognised song is now being searched for on the same
\* stream: the display announces the search, the just-started flag is still
\* set and no media id was processed.
SkippedThenSearching ==
    \E d \in devs :
        /\ hist[d].skipped /\ OnRadio(d) /\ just_started
        /\ last_media_id[d] = "" /\ trackers[d] = <<>>
        /\ Len(fetches[d]) = 1 /\ fetches[d][1].audiofingerprint
        /\ fetches[d][1].pc = "searching" /\ fetches[d][1].sub = "ret"
        /\ display[d] = <<"", "Searching for lyrics...", "">>

\* C17 -- the first backend query of a fetch uses the full artist string;
\* a further query is made only after an empty answer and only when the
\* artist string contains a separator, one per individual artist from left
\* to right, and none after a non-empty answer; a fetch therefore makes at
\* most 1 + (number of individual artists) queries, and when the last
\* candidate misses it shows "No lyrics found" and starts no session.
\* A pending query is the first one or that of an individual artist.
QueryInRange(f) ==
    f.pc = "query"
    => /\ f.query \in 0..Len(artist_list(f.artist))
       /\ f.query > 0 => contains_separator(f.artist)
       /\ search_artist(f) = IF f.query = 0 THEN f.artist
                             ELSE <<artist_list(f.artist)[f.query]>>

\* The fetch task at position j of device d enters its query state.
FirstQueryIsFull(d, j) ==
    (fetches[d][j].pc # "query" /\ Len(fetches'[d]) = Len(fetches[d])
        /\ fetches'[d][j].pc = "query")
    => (fetches'[d][j].query = 0 /\ search_artist(fetches'[d][j]) = fetches[d][j].artist)

QueryFallsBack(d, j, lyrics_result) ==
    LET f == fetches[d][j]
        n == Len(artist_list(f.artist))
    IN QueryReturns(d, j, lyrics_result)
       => IF lyrics_result # <<>>
          THEN \/ fetches'[d] = RemoveAt(fetches[d], j)
               \/ /\ Len(fetches'[d]) = Len(fetches[d])
                  /\ fetches'[d][j].pc \notin {"query", "no_lyrics"}
          ELSE /\ Len(fetches'[d]) = Len(fetches[d])
               /\ IF contains_separator(f.artist) /\ f.query < n
                  THEN /\ fetches'[d][j] = [f EXCEPT !.query = f.query + 1]
                       /\ sync'[d] = sync[d] /\ display'[d] = display[d]
                  ELSE /\ fetches'[d][j].pc = "no_lyrics"
                       /\ fetches'[d][j].w = <<"", "No lyrics found", "">>
                       /\ sync'[d] = sync[d] /\ trackers'[d] = trackers[d]

QueryWithFallback ==
    [][\A d \in devs : \A j \in 1..Len(fetches[d]) :
          /\ QueryInRange(fetches[d][j])
          /\ FirstQueryIsFull(d, j)
          /\ \A res \in Answers(fetches[d][j].track) : QueryFallsBack(d, j, res)]_vars

\* The full artist string and then each of the two artists of a song missed:
\* after three queries the fetch shows "No lyrics found" and no session runs.
AllCandidatesMissed ==
    \E d \in devs : \E j \in 1..Len(fetches[d]) :
        LET f == fetches[d][j]
        IN /\ f.pc = "no_lyrics" /\ f.query = 2 /\ Len(artist_list(f.artist)) = 2
           /\ display[d] = <<"", "No lyrics found", "">>
           /\ ~sync[d].active /\ trackers[d] = <<>>

\* C18 -- a backend query that fails with an error is handled like one that
\* returns nothing: no fault leaves the fetch, which goes on to the next
\* individual artist when there is one and otherwise shows "No lyrics
\* found" without starting a session.
ErrorFallsBack(d, j) ==
    LET f == fetches[d][j]
        n == Len(artist_list(f.artist))
    IN QueryRaises(d, j)
       => /\ faults'[d] = faults[d]
          /\ Len(fetches'[d]) = Len(fetches[d])
          /\ IF contains_separator(f.artist) /\ f.query < n
             THEN fetches'[d][j] = [f EXCEPT !.query = f.query + 1]
             ELSE /\ fetches'[d][j].pc = "no_lyrics"
                  /\ fetches'[d][j].w = <<"", "No lyrics found", "">>
          /\ sync'[d] = sync[d]

ErrorIsAMiss ==
    [][\A d \in devs : \A j \in 1..Len(fetches[d]) : ErrorFallsBack(d, j)]_vars

\* C19 -- the first fetch to get past the radio short-circuit after startup
\* drops the position and timestamp it was given, so that its session
\* starts without an initial position; it clears the just-started flag,
\* which is never set again, so that every later fetch keeps the position
\* it was given up to start(), which hands it to the new tracker.
\* The fetch at position j of device d passes the just-started guard.
GuardDropsPosition(d, j) ==
    LET f == fetches[d][j]
    IN (AtDeduplication(f) /\ FetchStep(d, j))
       => /\ ~just_started'
          /\ Len(fetches'[d]) = Len(fetches[d])
             => /\ fetches'[d][j].pos = IF just_started THEN NoPos ELSE f.pos
                /\ fetches'[d][j].updated_at =
                       IF just_started THEN NoTime ELSE f.updated_at

\* Any other step of the fetch leaves its position and the flag alone.
PositionKept(d, j) ==
    LET f == fetches[d][j]
    IN (~AtDeduplication(f) /\ Len(fetches'[d]) = Len(fetches[d])
           /\ fetches'[d][j] # f)
       => /\ fetches'[d][j].pos = f.pos
          /\ fetches'[d][j].updated_at = f.updated_at
          /\ just_started' = just_started

\* start() binds a new tracker for the fetch: with the position the fetch
\* still has, or without one.
StartTakesPosition(d, j) ==
    LET f == fetches[d][j]
        k == Len(trackers[d]) + 1
    IN ((FetchStep(d, j) \/ \E res \in Answers(f.track) : QueryReturns(d, j, res))
           /\ Len(trackers'[d]) = k)
       => IF f.pos # NoPos /\ f.updated_at # NoTime
          THEN /\ Len(renders'[d]) = Len(renders[d]) + 1
               /\ trackers'[d][k].media_position # NoPos
          ELSE /\ renders'[d] = renders[d]
               /\ trackers'[d][k].media_position = NoPos
               /\ trackers'[d][k].position_updated_at = NoTime
               /\ Len(fetches'[d]) = Len(fetches[d])
               /\ fetches'[d][j].pc = "start_provisional"
               /\ fetches'[d][j].w = FirstLines(fetches'[d][j].lrc)

JustStartedGuard ==
    [][/\ just_started' => just_started
       /\ \A d \in devs : \A j \in 1..Len(fetches[d]) :
             /\ GuardDropsPosition(d, j)
             /\ PositionKept(d, j)
             /\ StartTakesPosition(d, j)]_vars

\* The first fetch, for the track the player reports at 1.5 s, is showing
\* the first lines of the lyrics: it has no position left and its tracker
\* has none.
FirstFetchFromBeginning ==
    \E d \in devs :
        /\ Len(fetches[d]) = 1 /\ Len(trackers[d]) = 1 /\ ~just_started
        /\ ~fetches[d][1].audiofingerprint
        /\ fetches[d][1].pc = "start_provisional" /\ fetches[d][1].sub = "ret"
        /\ fetches[d][1].pos = NoPos
        /\ player[d].present /\ player[d].pos = 1500
        /\ trackers[d][1].media_position = NoPos
        /\ display[d] = <<"", "A", "B">>
        /\ renders[d] = <<>> /\ hist[d].stopped = {}

\* C20 -- start() with an initial position on a source that is not a
\* continuous one, with timeline[i] <= position < timeline[i + 1] (1-based,
\* monotonic timeline), makes line i the active one (index i - 1 counted
\* from 0) and spawns the render of (line i - 1 or "", line i, line i + 1)
\* in the step that binds the tracker, before any callback of that tracker.
StartRendersLine(d, j) ==
    LET f == fetches[d][j]
        k == Len(trackers[d]) + 1
        tl == sync'[d].timeline
        i == FindInterval(tl, f.pos)
    IN ((FetchStep(d, j) \/ \E res \in Answers(f.track) : QueryReturns(d, j, res))
           /\ Len(trackers'[d]) = k
           /\ f.pos # NoPos /\ f.updated_at # NoTime /\ ~f.audiofingerprint
           /\ Monotonic(tl) /\ i > 0)
       => /\ tl[i] <= f.pos /\ f.pos < tl[i + 1]
          /\ sync'[d].current_line_index = i - 1
          /\ Len(renders'[d]) = Len(renders[d]) + 1
          /\ renders'[d][Len(renders'[d])].w = Around(sync'[d].lyrics, i)
          /\ renders'[d][Len(renders'[d])].n = 1
          /\ sync'[d].media_tracker = k /\ sync'[d].active
          /\ trackers'[d][k].monitor_task = "run"

StartSyncsToPosition ==
    [][\A d \in devs : \A j \in 1..Len(fetches[d]) : StartRendersLine(d, j)]_vars

\* A session for the track the player reports at 1.5 s has just started on
\* the timeline 0, 1 s, 2 s: line B is the active one and the render of
\* (A, B, C) is pending, the display still announcing the search, before
\* the polling loop of the tracker has run.
StartedAtSecondLine ==
    \E d \in devs :
        /\ sync[d].active /\ sync[d].media_tracker = Len(trackers[d])
        /\ ~trackers[d][Len(trackers[d])].is_radio_source
        /\ sync[d].timeline = <<0, 1000, 2000>> /\ sync[d].current_line_index = 1
        /\ fetches[d] = <<>>
        /\ Len(renders[d]) = 1 /\ renders[d][1].w = <<"A", "B", "C">>
        /\ renders[d][1].n = 1
        /\ display[d] = <<"", "Searching for lyrics...", "">>

\* C21 -- a position update on an active session that resolves to the line
\* that is the active one already spawns no render and leaves the display
\* alone; one that resolves to another line makes it the active one and
\* spawns exactly one render, so that of consecutive updates resolving to
\* the same line only the first one writes.
UpdateWritesOnChange(d, k) ==
    LET tr == trackers[d][k]
        s == sync[d]
        position_ms == calculate_current_position(tr)
        i == FindInterval(s.timeline, position_ms)
    IN (/\ PollTick(d, k)
        /\ tr.tracking_active /\ tr.state = "playing" /\ tr.media_position # NoPos
        /\ s.active /\ s.timeline # <<>> /\ s.lyrics # <<>>
        /\ position_ms < Last(s.timeline) /\ i > 0)
       => /\ sync'[d].current_line_index = i - 1
          /\ display'[d] = display[d]
          /\ IF i - 1 = s.current_line_index
             THEN renders'[d] = renders[d]
             ELSE /\ Len(renders'[d]) = Len(renders[d]) + 1
                  /\ SubSeq(renders'[d], 1, Len(renders[d])) = renders[d]
                  /\ Last(renders'[d]).w = Triple(s.lyrics, i)

WriteOnlyOnLineChange ==
    [][\A d \in devs : \A k \in 1..Len(trackers[d]) : UpdateWritesOnChange(d, k)]_vars

\* A position update found the first line active already, a second after
\* the session showed it: nothing is being rendered and the display is as
\* the first update left it.
SameLineHeld ==
    \E d \in devs :
        /\ hist[d].held /\ now = 1
        /\ sync[d].active /\ sync[d].current_line_index = 0
        /\ sync[d].last_update_time = 1
        /\ renders[d] = <<>> /\ stops[d] = <<>> /\ fetches[d] = <<>>
        /\ display[d] = <<"", "A", "B">>

\* C22 -- while a session is active and its tracker is playing at a position
\* inside an interval of the timeline, a watchdog that wakes when the display
\* was last written longer ago than the watchdog interval (0.5 s for the
\* first wake-ups, then force_update_interval), and no render is pending,
\* writes the triple of that interval's line to the display.
WatchdogForces(d, j) ==
    LET wd == watchdogs[d][j]
        s == sync[d]
        k == s.media_tracker
        n == IF wd.initial_updates < max_initial_updates
             THEN wd.initial_updates + 1 ELSE wd.initial_updates
        interval_ds == IF n < max_initial_updates THEN initial_interval_ds
                       ELSE 10 * force_update_interval
        i == FindInterval(s.timeline, calculate_current_position(trackers[d][k]))
    IN (/\ wd.pc = "sleep" /\ wd.sub = "" /\ WatchdogStep(d, j)
        /\ s.active /\ k # 0 /\ trackers[d][k].state = "playing"
        /\ 10 * (now - hist[d].wrote) > interval_ds /\ renders[d] = <<>>
        /\ i > 0)
       => /\ watchdogs'[d][j].pc = "forcing"
          /\ watchdogs'[d][j].w = Triple(s.lyrics, i)
          /\ display'[d][1] = Triple(s.lyrics, i)[1]

WatchdogForcesWrite ==
    [][\A d \in devs : \A j \in 1..Len(watchdogs[d]) : WatchdogForces(d, j)]_vars

\* C23 -- a tracker whose stop_tracking() has returned calls neither the
\* position callback nor the change callback again: a player event observed
\* when every tracker of the device is stopped reaches the synchronizer
\* through no callback, so it spawns no stop and no render and leaves the
\* synchronizer as it is.
Stopped(tr) == tr.listening /\ ~tr.tracking_active /\ tr.monitor_task = "none"

StoppedTrackersSilent(d) ==
    (/\ trackers[d] # <<>>
     /\ \A k \in 1..Len(trackers[d]) : Stopped(trackers[d][k])
     /\ player'[d] # player[d])
    => /\ stops'[d] = stops[d]
       /\ renders'[d] = renders[d]
       /\ sync'[d] = sync[d]

StoppedIsTerminal ==
    [][\A d \in devs : StoppedTrackersSilent(d)]_vars

\* C24 -- a fault in one iteration of the polling loop does not end the
\* loop: a tracker that is tracking always has its polling loop running, so
\* that later iterations deliver position callbacks while the player plays.
TrackingKeepsPolling ==
    \A d \in devs : \A k \in 1..Len(trackers[d]) :
        trackers[d][k].tracking_active => trackers[d][k].monitor_task = "run"

\* C25 -- when the media player entity disappears, no tracker changes, no
\* callback reaches the synchronizer and the polling loops go on; an event
\* that carries no position fields leaves media_position of every tracker
\* as it is, and position_updated_at too, except that the resume of a
\* paused tracker that is not a radio source moves it forward by the length
\* of the pause.
EntityGoneIsNoOp(d) ==
    (player[d].present /\ ~player'[d].present)
    => /\ trackers'[d] = trackers[d]
       /\ sync'[d] = sync[d]
       /\ stops'[d] = stops[d] /\ renders'[d] = renders[d]

Resuming(tr, pl) ==
    /\ tr.state = "paused" /\ pl.state = "playing" /\ tr.pause_start_time # NoTime
    /\ ~tr.is_radio_source /\ tr.position_updated_at # NoTime

PositionFieldsAbsent(d) ==
    player'[d] # player[d] /\ player'[d].present /\ player'[d].pos = NoPos
    /\ Len(trackers'[d]) = Len(trackers[d])

SampleHeld(d, k) ==
    LET tr == trackers[d][k] IN
    (PositionFieldsAbsent(d) /\ tr.listening)
    => /\ trackers'[d][k].media_position = tr.media_position
       /\ trackers'[d][k].position_updated_at =
              IF Resuming(tr, player'[d])
              THEN tr.position_updated_at + (now - tr.pause_start_time)
              ELSE tr.position_updated_at

SampleUntouched(d, k) ==
    LET tr == trackers[d][k] IN
    (PositionFieldsAbsent(d) /\ tr.listening)
    => /\ trackers'[d][k].media_position = tr.media_position
       /\ trackers'[d][k].position_updated_at = tr.position_updated_at

GivesEntry(line) == Len(line.stamp) = 2 /\ line.text # ""
OffsetOf(line) == line.stamp[1] * 60000 + line.stamp[2]
Entries(text) == SelectSeq(text, GivesEntry)
OffsetsOf(text) == [k \in 1..Len(Entries(text)) |-> OffsetOf(Entries(text)[k])]
WordsOf(text) == [k \in 1..Len(Entries(text)) |-> Entries(text)[k].text]

\* C26 -- Whatever text the backend answers with, the parser returns as many
\* offsets as lines, one per line that has a time and a text: a line that is
\* empty after its timestamp, a line without a timestamp and a line with a
\* malformed timestamp give no entry and do not stop the parsing of the
\* other lines, and no exception leaves the fetch; a text without a valid
\* line gives an empty timeline.
ParsedWithoutError(d, j, text) ==
    QueryReturns(d, j, text) =>
        /\ faults'[d] = faults[d]
        /\ Len(sync'[d].timeline) = Len(sync'[d].lyrics)
        /\ Len(sync'[d].timeline) = Len(Entries(text))
ParserSkipsBadLines ==
    [][\A d \in devs : \A j \in 1..Len(fetches[d]) : \A text \in Texts :
          ParsedWithoutError(d, j, text)]_vars
\* C27 -- For a text all of whose lines carry a well-formed timestamp, the
\* parsed timeline is non-decreasing.
WellFormed(text) == \A k \in 1..Len(text) : Len(text[k].stamp) = 2
NonDecreasing(q) == \A k \in 1..Len(q) - 1 : q[k] <= q[k + 1]
ParsedTimelineSorted ==
    [][\A d \in devs : \A j \in 1..Len(fetches[d]) : \A text \in Texts :
          QueryReturns(d, j, text) /\ WellFormed(text)
              => NonDecreasing(sync'[d].timeline)]_vars

\* C27 (amended) -- For a text all of whose lines carry a well-formed
\* timestamp and whose timestamps are non-decreasing from line to line, the
\* parsed timeline is non-decreasing and has an entry for each line with a
\* text.
StampsOf(text) == [k \in 1..Len(text) |-> OffsetOf(text[k])]
SortedInputParsesSorted ==
    [][\A d \in devs : \A j \in 1..Len(fetches[d]) : \A text \in Texts :
          QueryReturns(d, j, text) /\ WellFormed(text) /\ NonDecreasing(StampsOf(text))
              => /\ NonDecreasing(sync'[d].timeline)
                 /\ Len(sync'[d].timeline) = Len(Entries(text))]_vars
\* A session whose timeline was parsed from three lines in ascending order.
AscendingTimelineParsed ==
    \E d \in devs : sync[d].exists /\ sync[d].timeline = <<5000, 10000, 60000>>

\* C28 -- The parser emits its entries in the order of the input lines: the
\* k-th (offset, line) pair of the timeline comes from the k-th line that
\* has a time and a text, whatever the order of the offsets (nothing is
\* emitted when an exception leaves the parser).
ParsedInInputOrder ==
    [][\A d \in devs : \A j \in 1..Len(fetches[d]) : \A text \in Texts :
          QueryReturns(d, j, text) /\ faults'[d] = faults[d]
              => /\ sync'[d].timeline = OffsetsOf(text)
                 /\ sync'[d].lyrics = WordsOf(text)]_vars
\* A session whose timeline keeps the descending order of its input.
DescendingOrderKept ==
    \E d \in devs : /\ sync[d].exists
                     /\ sync[d].timeline = <<10000, 5000>>
                     /\ sync[d].lyrics = <<"B", "A">>
\* ------------------------------------------------------------ several devices
\* What the program holds for device d.
DeviceState(d) ==
    <<player[d], display[d], sync[d], trackers[d], renders[d], stops[d],
      watchdogs[d], fetches[d], last_media_id[d], faults[d]>>

\* No step changes what is held for two devices.
OneDevicePerStep ==
    \A d \in devs : \A e \in devs \ {d} :
        DeviceState(d)' = DeviceState(d) \/ DeviceState(e)' = DeviceState(e)

\* C29 -- An operation for one device changes neither the session, tracker,
\* display or last processed media id of another device nor any state that
\* the operations of another device read.
DevicesFullyIndependent ==
    [][OneDevicePerStep /\ just_started' = just_started]_vars

\* C29 (amended) -- An operation for one device changes neither the session,
\* tracker, display or last processed media id of another device; the one
\* state the operations of all devices read is the just-started flag of the
\* process, which the first fetch on any device clears and nothing sets, and
\* on which depends whether a fetch drops the position it was given.
DevicesShareOnlyStartFlag ==
    [][/\ OneDevicePerStep
       /\ just_started' => just_started
       /\ \A d \in devs : \A j \in 1..Len(fetches[d]) : GuardDropsPosition(d, j)]_vars
\* Both devices have a session, each for its own track: the fetch of device
\* 1 passed the guard first, lost its position and is showing the first
\* lines; the fetch of device 2 kept its position and its session runs.
BothDevicesInSession ==
    /\ devs = {1, 2} /\ sync[2].active /\ sync[1].exists
    /\ sync[1].current_track # sync[2].current_track
    /\ Len(fetches[1]) = 1 /\ fetches[1][1].pc = "start_provisional"
    /\ fetches[1][1].pos = NoPos /\ player[1].pos = 1500
    /\ trackers[2][1].media_position = 1500
\* -------------------------------------------------------------- render order
\* C30 -- The display updates of a session are applied in the order in
\* which they were triggered: a render task that finishes leaves its own
\* (previous, current, next) triple on the three display lines, and the one
\* that finishes when no other is pending is the most recently triggered
\* render, so the display then shows that triple and neither the triple of
\* an earlier render nor a mixture of two.
RenderFinishes(d, j) == renders[d][j].n = 3 /\ RenderStep(d, j)
AccelerationOf(tr, elapsed) ==
    IF ~tr.is_radio_source \/ elapsed <= 2 THEN 1000
    ELSE IF 1000 + 5 * elapsed < 1050 THEN 1000 + 5 * elapsed ELSE 1050
\* Milliseconds as the hundredths of a second the tracker rounds to.
Hundredths(ms) == (ms \div 10) * 10
PositionAsSpecified(tr) ==
    LET elapsed == now - tr.position_updated_at
        p == calculate_current_position(tr)
    IN (tr.media_position # NoPos /\ tr.position_updated_at # NoTime)
       => IF tr.state = "playing"
          THEN /\ p = Hundredths(tr.media_position + elapsed * AccelerationOf(tr, elapsed))
               /\ p >= tr.media_position + 1000 * elapsed
               /\ p <= tr.media_position + 1050 * elapsed
               /\ ~tr.is_radio_source => p = tr.media_position + 1000 * elapsed
          ELSE p = tr.media_position

\* C31 -- While playing the tracker's position is its sample's position
\* plus the time elapsed since the sample times the acceleration, which is
\* 1.0 for a source that is not continuous and, for a continuous one, 1.0
\* up to 2 s elapsed, then grows linearly and never exceeds 1.05; when the
\* tracker is not playing the position is the stored one, and an iteration
\* of the polling loop changes nothing.
PositionCalculated ==
    [][\A d \in devs : \A k \in 1..Len(trackers[d]) :
          /\ PositionAsSpecified(trackers[d][k])
          /\ PositionAsSpecified(trackers[d][k])'
          /\ (PollTick(d, k) /\ trackers[d][k].tracking_active
                  /\ trackers[d][k].state # "playing")
                => UNCHANGED <<trackers, sync, display, renders, stops>>]_vars
\* A playing continuous source whose sample is more than 10 s old: the
\* acceleration is at its cap, and the polling loop has delivered the
\* position, which is past the end of the timeline.
AccelerationCapped ==
    \E d \in devs : \E k \in 1..Len(trackers[d]) :
        LET tr == trackers[d][k] IN
        /\ hist[d].finished = sync[d].gen /\ sync[d].gen = k
        /\ tr.is_radio_source /\ tr.state = "playing" /\ tr.media_position = 1500
        /\ now - tr.position_updated_at > 10
        /\ calculate_current_position(tr)
              = 1500 + 1050 * (now - tr.position_updated_at)
\* C32 -- The polling loop calls the position callback only while its
\* tracker is tracking, its state is playing and it has a position: an
\* iteration that finds the player paused, idle or stopped delivers no
\* position and changes nothing.
CallbackOnlyWhilePlaying ==
    [][\A d \in devs : \A k \in 1..Len(trackers[d]) :
          PollTick(d, k)
              => LET tr == trackers[d][k] IN
                 IF tr.tracking_active /\ tr.state = "playing" /\ tr.media_position # NoPos
                 THEN hist'[d].fired = "playing"
                 ELSE /\ hist'[d] = hist[d] /\ sync'[d] = sync[d]
                      /\ renders'[d] = renders[d] /\ stops'[d] = stops[d]
                      /\ display'[d] = display[d]]_vars
\* A tracker with a position whose player has been paused for a second:
\* the position was delivered while it played and not since.
PausedWithoutCallback ==
    \E d \in devs : \E k \in 1..Len(trackers[d]) :
        LET tr == trackers[d][k] IN
        /\ sync[d].active /\ sync[d].media_tracker = k
        /\ tr.tracking_active /\ tr.monitor_task = "run"
        /\ tr.state = "paused" /\ tr.media_position # NoPos
        /\ tr.pause_start_time # NoTime /\ tr.pause_start_time < now
        /\ hist[d].fired = "playing"
        /\ sync[d].last_update_time <= tr.pause_start_time
\* ------------------------------------------------------- the provisional start
\* The step in which the start() of the fetch at position j binds its
\* tracker, the fetch having no position or no timestamp.
StartsWithoutPosition(d, j) ==
    LET f == fetches[d][j]
    IN /\ FetchStep(d, j)
          \/ \E res \in Answers(f.track) \cup {OneLine} : QueryReturns(d, j, res)
       /\ Len(trackers'[d]) = Len(trackers[d]) + 1
       /\ Len(fetches'[d]) = Len(fetches[d])
       /\ fetches'[d][j].pos = NoPos \/ fetches'[d][j].updated_at = NoTime

\* C33 -- start() without a position and timestamp pair writes the
\* provisional display, the empty line and the first one or two lines of
\* the lyrics, leaves current_line_index at -1 and gives its tracker no
\* sample; the line is resolved from the position of the tracker that this
\* start() constructed and from no other.
ProvisionalDisplay(d, j) ==
    StartsWithoutPosition(d, j)
        => LET f == fetches'[d][j]
               k == Len(trackers'[d])
           IN /\ f.pc = "start_provisional"
              /\ f.w = <<"", f.lrc[1], IF Len(f.lrc) > 1 THEN f.lrc[2] ELSE "">>
              /\ display'[d][1] = ""
              /\ sync'[d].lyrics = f.lrc
              /\ sync'[d].current_line_index = -1
              /\ sync'[d].media_tracker = k /\ sync'[d].gen = k
              /\ trackers'[d][k].media_position = NoPos
              /\ renders'[d] = renders[d]
ResolvedByOwnTracker(d) ==
    (/\ sync[d].current_line_index = -1 /\ sync'[d].current_line_index # -1
     /\ sync'[d].gen = sync[d].gen)
        => LET k == sync[d].gen
               s == sync'[d]
           IN /\ k # 0 /\ trackers'[d][k].media_position # NoPos
              /\ s.current_line_index + 1
                    = FindInterval(s.timeline, calculate_current_position(trackers'[d][k]))
ProvisionalUntilOwnPosition ==
    [][\A d \in devs :
          /\ ResolvedByOwnTracker(d)
          /\ \A j \in 1..Len(fetches[d]) : ProvisionalDisplay(d, j)]_vars
\* The second session has started without a position: the display shows
\* the first two lines of its lyrics, no line is current, its tracker has
\* no sample and the tracker of the session before still holds its own.
SecondSessionProvisional ==
    \E d \in devs :
        /\ Len(trackers[d]) = 2 /\ Len(fetches[d]) = 1
        /\ fetches[d][1].pc = "start_provisional" /\ fetches[d][1].sub = "ret"
        /\ display[d] = <<"", "X", "Y">>
        /\ sync[d].gen = 2 /\ sync[d].current_line_index = -1
        /\ trackers[d][2].media_position = NoPos
        /\ trackers[d][1].media_position = 1500
\* ------------------------------------------------------ the lookahead window
\* The step in which the start() of the fetch at position j binds a tracker
\* of a continuous source with the position the fetch carries.
StartsContinuousAt(d, j) ==
    LET f == fetches[d][j]
    IN /\ FetchStep(d, j) \/ \E res \in Answers(f.track) : QueryReturns(d, j, res)
       /\ Len(trackers'[d]) = Len(trackers[d]) + 1
       /\ Last(trackers'[d]).is_radio_source
       /\ Last(trackers'[d]).media_position # NoPos
\* The lines whose timestamp lies from 500 ms to 10 s after position_ms.
InLookahead(timeline, position_ms) ==
    {i \in 1..Len(timeline) :
        timeline[i] >= position_ms + 500 /\ timeline[i] <= position_ms + 10000}

\* C34 -- On a continuous source the initial resolution takes a line whose
\* timestamp lies in the window from position_ms + 500 to position_ms +
\* 10000 when there is one, and renders it as the current line; the
\* timestamp of the line it renders as current is never less than 500 ms
\* after position_ms; when no line matches, the first one or two lines are
\* displayed.
LookaheadResolution(d, j) ==
    StartsContinuousAt(d, j)
        => LET s == sync'[d]
               position_ms == Last(trackers'[d]).media_position
               c == s.current_line_index + 1
               r == Last(renders'[d])
           IN /\ Len(renders'[d]) = Len(renders[d]) + 1
              /\ IF c > 0
                 THEN /\ r.w = Triple(s.lyrics, c)
                      /\ ~(s.timeline[c] > position_ms
                             /\ s.timeline[c] < position_ms + 500)
                 ELSE r.w = FirstLines(s.lyrics)
              /\ InLookahead(s.timeline, position_ms) # {}
                    => c \in InLookahead(s.timeline, position_ms)
LookaheadPreferred ==
    [][\A d \in devs : \A j \in 1..Len(fetches[d]) : LookaheadResolution(d, j)]_vars
\* ------------------------------------------------------ sessions and timelines
ActiveHasTimeline ==
    \A d \in devs :
        sync[d].active => /\ sync[d].timeline # <<>>
                          /\ Len(sync[d].timeline) = Len(sync[d].lyrics)
\* The answer to the query of the fetch at position j is a miss or a text
\* without a timed line: no tracker is constructed and the synchronizer is
\* as before.
NoSessionOnMiss(d, j, res) ==
    (QueryReturns(d, j, res) /\ (res = <<>> \/ Entries(res) = <<>>))
        => /\ trackers'[d] = trackers[d]
           /\ sync'[d] = sync[d]
           /\ stops'[d] = stops[d]
\* A step that binds a tracker binds a timeline with it.
StartHasTimeline(d) ==
    Len(trackers'[d]) > Len(trackers[d])
        => /\ sync'[d].timeline # <<>>
           /\ Len(sync'[d].timeline) = Len(sync'[d].lyrics)

\* C35 -- An active synchronizer has a timeline that is not empty and as
\* long as its lyrics: start() is entered only with a parsed timeline that
\* is not empty, and a backend miss or a text without a timed line starts
\* no session.
SessionsHaveTimelines ==
    [][/\ ActiveHasTimeline /\ ActiveHasTimeline'
       /\ \A d \in devs :
             /\ StartHasTimeline(d)
             /\ \A j \in 1..Len(fetches[d]) : \A res \in Answers(fetches[d][j].track) :
                   NoSessionOnMiss(d, j, res)]_vars
\* The backend answered a fetch with lyrics that have no timestamps: the
\* fetch has written "Lyrics not synced" and returned, no tracker was ever
\* constructed and the synchronizer is not active.
UnsyncedAnswerStartsNothing ==
    \E d \in devs :
        /\ fetches[d] = <<>> /\ display[d] = <<"", "Lyrics not synced", "">>
        /\ trackers[d] = <<>> /\ ~sync[d].active
\* ----------------------------------------------------------- overlapping fetches
\* Both fetches have run to their end, each through a start() that
\* constructed a tracker.
BothFetchesCompleted(d) ==
    /\ fetches[d] = <<>> /\ Len(trackers[d]) = 2 /\ player[d].mid = Track2.mid

\* C36 -- Two fetches for one device overlap, the later one requested while
\* the earlier one awaits the backend: once both have completed, the active
\* session, if there is one, has the lyrics of the track requested later.
LaterFetchKeepsSession ==
    \A d \in devs :
        (BothFetchesCompleted(d) /\ sync[d].active)
            => sync[d].lyrics = WordsOf(Entries(Synced(Track2.title)))
\* ------------------------------------------------------- a de-duplicated call
\* A fetch from its first statement to its next yield or its return: the
\* calls inside update_lyrics_entities do not yield, so no other task runs
\* in between.
RECURSIVE FetchCall(_, _, _)
FetchCall(W, f, pl) ==
    LET r == fetch_resume(W, f, pl)
    IN IF r.f.pc = "done" \/ ~InCall(r.f) THEN r ELSE FetchCall(r.W, r.f, pl)

\* The test of lines 714-718 holds for the track the player reports.
AlreadyDisplayed(d) ==
    LET s == sync[d]
        pl == player[d]
    IN /\ s.exists /\ s.active /\ s.media_tracker # 0
       /\ pl.present /\ ~IsRadioId(pl.mid)
       /\ trackers[d][s.media_tracker].current_track = pl.title
       /\ trackers[d][s.media_tracker].current_artist = pl.artist

SkippedCallChangesNothing(d, j) ==
    LET f == fetches[d][j]
        r == FetchCall(World(d), f, player[d])
    IN (f.pc = "new" /\ ~f.audiofingerprint /\ ~Writing(d) /\ AlreadyDisplayed(d))
         => /\ r.f.pc = "done"
            /\ r.W.disp = display[d]
            /\ r.W.s = sync[d]
            /\ r.W.t = trackers[d]
            /\ r.W.lmid = last_media_id[d]
            /\ r.W.js = just_started

\* C37 -- A fetch that is not fingerprint-triggered and is called while the
\* session shows the track the player reports returns at the de-duplication,
\* and after the call the display lines, the synchronizer, the trackers, the
\* last-processed media id and the just-started flag are what they were
\* before it.
DeduplicatedFetchIsFrame ==
    \A d \in devs : \A j \in 1..Len(fetches[d]) : SkippedCallChangesNothing(d, j)
\* ------------------------------------------------------ the first position
\* A session is active while the player is playing.
StartedWhilePlaying ==
    \E d \in devs : sync[d].active /\ player[d].state = "playing"
\* The polling loop has called the position callback.
PositionDelivered == \E d \in devs : hist[d].fired # ""

\* C38 -- Once a session has been started while the player is playing, the
\* polling loop of its tracker eventually calls the position callback; this
\* holds for a session started for a recognised song on a radio station by
\* the first fetch after startup, which starts without a position.
SessionGetsPosition == StartedWhilePlaying ~> PositionDelivered
\* --------------------------------------------------------- the line index
LineIndexInRange(s) ==
    \/ s.current_line_index = -1
    \/ /\ 0 <= s.current_line_index
       /\ s.current_line_index <= Len(s.timeline) - 2
       /\ s.current_line_index <= Len(s.lyrics) - 2
\* The polling loop of tracker k delivers a position at or past the last
\* offset of the timeline to an active session: a stop() is scheduled and
\* the line index stays.
LastOffsetFinishes(d, k) ==
    LET tr == trackers[d][k]
        s == sync[d]
    IN (/\ tr.tracking_active /\ tr.state = "playing" /\ tr.media_position # NoPos
        /\ s.active /\ s.timeline # <<>> /\ s.lyrics # <<>>
        /\ calculate_current_position(tr) >= Last(s.timeline)
        /\ PollTick(d, k))
       => /\ sync'[d].current_line_index = s.current_line_index
          /\ Len(stops'[d]) = Len(stops[d]) + 1

\* C39 -- In every state the line index of a synchronizer is -1 or an index
\* from 0 to len(timeline) - 2, so that the lines read around it exist: the
\* last entry of the timeline is never made the current line by start(), by
\* a position update or by a seek, and a position update at or past the last
\* offset schedules the end of the session instead.
LastLineNeverCurrent ==
    [][/\ \A d \in devs : LineIndexInRange(sync[d]) /\ LineIndexInRange(sync'[d])
       /\ \A d \in devs : \A k \in 1..Len(trackers[d]) : LastOffsetFinishes(d, k)]_vars
\* The polling loop has delivered a position at or past the last offset to
\* the session, whose end is scheduled, and the line index is the largest
\* one there is, len(timeline) - 2: the line before the last entry.
FinishedOnLineBeforeLast ==
    \E d \in devs :
        LET s == sync[d] IN
        /\ s.gen > 0 /\ hist[d].finished = s.gen
        /\ Len(s.timeline) >= 2
        /\ s.current_line_index = Len(s.timeline) - 2
\* ------------------------------------------------------ the playback monitor
\* The handler of the frame at position j creates the task of a fetch.
MonitorStartsFetch(d, j) ==
    /\ fetches[d][j].pc = "monitor_clear" /\ fetches[d][j].sub = "ret"
    /\ FetchStep(d, j)
    /\ Len(fetches'[d]) = Len(fetches[d])

\* C40 -- The playback monitor starts no fetch for a media_content_id that
\* is the last-processed one already, also when the handler of a later event
\* has run while the handler of an earlier one was suspended between its
\* look at the last-processed id and its update of it: one fetch at most is
\* started per change of media_content_id.
OneFetchPerChange ==
    [][\A d \in devs : \A j \in 1..Len(fetches[d]) :
          MonitorStartsFetch(d, j)
              => last_media_id[d] # fetches[d][j].current_media_id]_vars
====
